---------------------------- MODULE Spec2Model ----------------------------
(* A state-machine model of the Mocito mocking library (src/mocito.c):    *)
(* the global context moc_ctx with its five bump-allocated regions, the   *)
(* configuration path moc_given / moc_given_extra and the dispatch path   *)
(* moc_act.  Array slots are numbered from 1; index 0 stands for the      *)
(* MOC_NULLNODE sentinel.  Strings are sequences of character codes.      *)
EXTENDS Integers, Sequences, FiniteSets, TLC

(* ---------------------------------------------------------------------- *)
(* Bounds of the model.                                                   *)
(* ---------------------------------------------------------------------- *)

\* largest arity of a mocked function that is configured or called
MaxParams == 2

\* the buffer handed to moc_init holds this many list nodes
MaxNodes == 4

\* consecutive dispatches are followed for this many turns of the groups
MaxCycles == 2

(* ---------------------------------------------------------------------- *)
(* Program constants.                                                     *)
(* ---------------------------------------------------------------------- *)

MOC_ERR_NFUNLIMIT == 1
MOC_ERR_NMAPLIMIT == 2
MOC_ERR_NMTCLIMIT == 3
MOC_ERR_NRSPLIMIT == 4
MOC_ERR_NNODLIMIT == 5
MOC_ERR_PARAMTYPE == 6
MOC_ERR_RETURTYPE == 7
MOC_ERR_INVALTYPE == 8
MOC_ERR_INVALOPER == 9
MOC_ERR_FUNNOTFND == 10
MOC_ERR_MAPNOTFND == 11
MOC_ERR_INVALMTCH == 12
MOC_ERR_INVNPARAM == 13

MOC_NULLNODE == 0
MOC_AUXMAX == 7
MOC_MAXPARAMS == 127

\* enum moc_stdtype and enum moc_ptrtype
MOC_VOID == 0
MOC_CHR == 1
MOC_SHR == 2
MOC_INT == 3
MOC_LNG == 4
MOC_FLT == 5
MOC_DBL == 6
MOC_SCHR == 7
MOC_UCHR == 8
MOC_USHR == 9
MOC_UINT == 10
MOC_ULNG == 11
MOC_FUN == 12
MOC_NOPTR == 0
MOC_PTR == 1
MOC_CPTR == 2

\* sizeof of the five element kinds on an LP64 build
SizeofFunction == 32
SizeofMapping == 32
SizeofMatcher == 32
SizeofResponder == 32
SizeofListnode == 24

\* sizeof of the field data of struct moc_ivalue, a double, and of a
\* pointer, on the same build
SizeofData == 8
SizeofPointer == 8

\* MOC_SIZE_T is an unsigned short, MOC_NUM_T and moc_type an unsigned char
SizeModulus == 65536
ByteModulus == 256

(* ---------------------------------------------------------------------- *)
(* Values and their type byte.                                            *)
(* ---------------------------------------------------------------------- *)

\* a variant that leaves one bit for the indirection
MOC_TYPES2BYTE_narrow(stdtype, ptrtype) ==
    (stdtype * 2 + ptrtype) % ByteModulus

MOC_TYPES2BYTE(stdtype, ptrtype) == (stdtype * 4 + ptrtype) % ByteModulus

MOC_STDTYPE(byte) == byte \div 4

MOC_PTRTYPE(byte) == byte % 4

moc_emptyval == [type |-> 0, data |-> 0]

moc_type_void == MOC_TYPES2BYTE(MOC_VOID, MOC_NOPTR)

moc_type_i == MOC_TYPES2BYTE(MOC_INT, MOC_NOPTR)

moc_type_l == MOC_TYPES2BYTE(MOC_LNG, MOC_NOPTR)

moc_i(val) == [type |-> MOC_TYPES2BYTE(MOC_INT, MOC_NOPTR), data |-> val]

moc_l(val) == [type |-> MOC_TYPES2BYTE(MOC_LNG, MOC_NOPTR), data |-> val]

moc_p_l(p) == [type |-> MOC_TYPES2BYTE(MOC_LNG, MOC_PTR), data |-> p]

moc_fn(fn) == [type |-> MOC_TYPES2BYTE(MOC_FUN, MOC_NOPTR), data |-> fn]

moc_isvalidtype(type) ==
    /\ MOC_STDTYPE(type) >= MOC_VOID
    /\ MOC_STDTYPE(type) <= MOC_FUN
    /\ MOC_PTRTYPE(type) >= MOC_NOPTR
    /\ MOC_PTRTYPE(type) <= MOC_CPTR

\* equal type and value; the switch has no case for MOC_VOID
moc_values_eq(val1, val2) ==
    IF val1.type = val2.type
    THEN IF MOC_PTRTYPE(val1.type) # MOC_NOPTR
         THEN val1.data = val2.data
         ELSE IF /\ MOC_STDTYPE(val1.type) >= MOC_CHR
                 /\ MOC_STDTYPE(val1.type) <= MOC_FUN
              THEN val1.data = val2.data
              ELSE FALSE
    ELSE FALSE

MOC_SWITCHOP(v1, v2, op) ==
    CASE op = "MOC_EQ" -> v1 = v2
      [] op = "MOC_NE" -> v1 # v2
      [] op = "MOC_LT" -> v1 < v2
      [] op = "MOC_LE" -> v1 <= v2
      [] op = "MOC_GT" -> v1 > v2
      [] op = "MOC_GE" -> v1 >= v2
      [] OTHER -> FALSE

moc_cmpfn(v1, v2, op) ==
    CASE op = "MOC_EQ" -> v1 = v2
      [] op = "MOC_NE" -> v1 # v2
      [] OTHER -> FALSE

\* the kind and indirection of val1 decide how both data fields are read
moc_cmpop(val1, val2, op) ==
    IF MOC_PTRTYPE(val1.type) # MOC_NOPTR
    THEN IF MOC_PTRTYPE(val1.type) \in {MOC_PTR, MOC_CPTR}
         THEN MOC_SWITCHOP(val1.data, val2.data, op)
         ELSE FALSE
    ELSE IF /\ MOC_STDTYPE(val1.type) >= MOC_CHR
            /\ MOC_STDTYPE(val1.type) <= MOC_ULNG
         THEN MOC_SWITCHOP(val1.data, val2.data, op)
         ELSE IF MOC_STDTYPE(val1.type) = MOC_FUN
              THEN moc_cmpfn(val1.data, val2.data, op)
              ELSE FALSE

RECURSIVE moc_strcmp(_, _)
\* 0 iff both strings are equal, else the difference of the first two
\* characters that differ (the end of a string reads as character 0)
moc_strcmp(str1, str2) ==
    LET c1 == IF str1 = <<>> THEN 0 ELSE Head(str1)
        c2 == IF str2 = <<>> THEN 0 ELSE Head(str2)
    IN IF c1 = c2 /\ c1 # 0
       THEN moc_strcmp(Tail(str1), Tail(str2))
       ELSE c2 - c1

(* ---------------------------------------------------------------------- *)
(* The constructors and the accessors of the values, one pair for each    *)
(* type, on the bytes of the field data.  A raw value is the sequence of  *)
(* the bytes of its object representation.                                *)
(* ---------------------------------------------------------------------- *)

\* sizeof of the C types the constructors and the accessors cast the
\* address of the field data to
SizeofC(ctype) ==
    CASE ctype \in {"char", "signed char", "unsigned char"} -> 1
      [] ctype \in {"short", "unsigned short"} -> 2
      [] ctype \in {"int", "unsigned int", "float"} -> 4
      [] ctype \in {"long", "unsigned long", "double"} -> 8
      [] OTHER -> SizeofPointer

\* for each type, named as in moc_type_<fn>, moc_<fn> and moc_get_<fn>: the
\* byte moc_type_<fn> returns, the byte moc_<fn> stores, and the C types
\* through which moc_<fn> writes the field data and moc_get_<fn> reads it
\* (moc_void writes nothing and has no accessor)
ValueFns ==
    <<
     [fn |-> "void", typefn |-> MOC_TYPES2BYTE(MOC_VOID, MOC_NOPTR),
      tag |-> MOC_TYPES2BYTE(MOC_VOID, MOC_NOPTR),
      stores |-> "", loads |-> ""],
     [fn |-> "c", typefn |-> MOC_TYPES2BYTE(MOC_CHR, MOC_NOPTR),
      tag |-> MOC_TYPES2BYTE(MOC_CHR, MOC_NOPTR),
      stores |-> "char", loads |-> "char"],
     [fn |-> "s", typefn |-> MOC_TYPES2BYTE(MOC_SHR, MOC_NOPTR),
      tag |-> MOC_TYPES2BYTE(MOC_SHR, MOC_NOPTR),
      stores |-> "short", loads |-> "short"],
     [fn |-> "i", typefn |-> MOC_TYPES2BYTE(MOC_INT, MOC_NOPTR),
      tag |-> MOC_TYPES2BYTE(MOC_INT, MOC_NOPTR),
      stores |-> "int", loads |-> "int"],
     [fn |-> "l", typefn |-> MOC_TYPES2BYTE(MOC_LNG, MOC_NOPTR),
      tag |-> MOC_TYPES2BYTE(MOC_LNG, MOC_NOPTR),
      stores |-> "long", loads |-> "long"],
     [fn |-> "f", typefn |-> MOC_TYPES2BYTE(MOC_FLT, MOC_NOPTR),
      tag |-> MOC_TYPES2BYTE(MOC_FLT, MOC_NOPTR),
      stores |-> "float", loads |-> "float"],
     [fn |-> "d", typefn |-> MOC_TYPES2BYTE(MOC_DBL, MOC_NOPTR),
      tag |-> MOC_TYPES2BYTE(MOC_DBL, MOC_NOPTR),
      stores |-> "double", loads |-> "double"],
     [fn |-> "sc", typefn |-> MOC_TYPES2BYTE(MOC_SCHR, MOC_NOPTR),
      tag |-> MOC_TYPES2BYTE(MOC_SCHR, MOC_NOPTR),
      stores |-> "signed char", loads |-> "signed char"],
     [fn |-> "uc", typefn |-> MOC_TYPES2BYTE(MOC_UCHR, MOC_NOPTR),
      tag |-> MOC_TYPES2BYTE(MOC_UCHR, MOC_NOPTR),
      stores |-> "unsigned char", loads |-> "unsigned char"],
     [fn |-> "us", typefn |-> MOC_TYPES2BYTE(MOC_USHR, MOC_NOPTR),
      tag |-> MOC_TYPES2BYTE(MOC_USHR, MOC_NOPTR),
      stores |-> "unsigned short", loads |-> "unsigned short"],
     [fn |-> "ui", typefn |-> MOC_TYPES2BYTE(MOC_UINT, MOC_NOPTR),
      tag |-> MOC_TYPES2BYTE(MOC_UINT, MOC_NOPTR),
      stores |-> "unsigned int", loads |-> "unsigned int"],
     [fn |-> "ul", typefn |-> MOC_TYPES2BYTE(MOC_ULNG, MOC_NOPTR),
      tag |-> MOC_TYPES2BYTE(MOC_ULNG, MOC_NOPTR),
      stores |-> "unsigned long", loads |-> "unsigned long"],
     [fn |-> "fn", typefn |-> MOC_TYPES2BYTE(MOC_FUN, MOC_NOPTR),
      tag |-> MOC_TYPES2BYTE(MOC_FUN, MOC_NOPTR),
      stores |-> "moc_fnptr", loads |-> "moc_fnptr"],
     [fn |-> "p", typefn |-> MOC_TYPES2BYTE(MOC_VOID, MOC_PTR),
      tag |-> MOC_TYPES2BYTE(MOC_VOID, MOC_PTR),
      stores |-> "void *", loads |-> "void *"],
     [fn |-> "p_c", typefn |-> MOC_TYPES2BYTE(MOC_CHR, MOC_PTR),
      tag |-> MOC_TYPES2BYTE(MOC_CHR, MOC_PTR),
      stores |-> "char *", loads |-> "char *"],
     [fn |-> "p_s", typefn |-> MOC_TYPES2BYTE(MOC_SHR, MOC_PTR),
      tag |-> MOC_TYPES2BYTE(MOC_SHR, MOC_PTR),
      stores |-> "short *", loads |-> "short *"],
     [fn |-> "p_i", typefn |-> MOC_TYPES2BYTE(MOC_INT, MOC_PTR),
      tag |-> MOC_TYPES2BYTE(MOC_INT, MOC_PTR),
      stores |-> "int *", loads |-> "int *"],
     [fn |-> "p_l", typefn |-> MOC_TYPES2BYTE(MOC_LNG, MOC_PTR),
      tag |-> MOC_TYPES2BYTE(MOC_LNG, MOC_PTR),
      stores |-> "long *", loads |-> "long *"],
     [fn |-> "p_f", typefn |-> MOC_TYPES2BYTE(MOC_FLT, MOC_PTR),
      tag |-> MOC_TYPES2BYTE(MOC_FLT, MOC_PTR),
      stores |-> "float *", loads |-> "float *"],
     [fn |-> "p_d", typefn |-> MOC_TYPES2BYTE(MOC_DBL, MOC_PTR),
      tag |-> MOC_TYPES2BYTE(MOC_DBL, MOC_PTR),
      stores |-> "double *", loads |-> "double *"],
     [fn |-> "p_sc", typefn |-> MOC_TYPES2BYTE(MOC_SCHR, MOC_PTR),
      tag |-> MOC_TYPES2BYTE(MOC_SCHR, MOC_PTR),
      stores |-> "signed char *", loads |-> "signed char *"],
     [fn |-> "p_uc", typefn |-> MOC_TYPES2BYTE(MOC_UCHR, MOC_PTR),
      tag |-> MOC_TYPES2BYTE(MOC_UCHR, MOC_PTR),
      stores |-> "unsigned char *", loads |-> "unsigned char *"],
     [fn |-> "p_us", typefn |-> MOC_TYPES2BYTE(MOC_USHR, MOC_PTR),
      tag |-> MOC_TYPES2BYTE(MOC_USHR, MOC_PTR),
      stores |-> "unsigned short *", loads |-> "unsigned short *"],
     [fn |-> "p_ui", typefn |-> MOC_TYPES2BYTE(MOC_UINT, MOC_PTR),
      tag |-> MOC_TYPES2BYTE(MOC_UINT, MOC_PTR),
      stores |-> "unsigned int *", loads |-> "unsigned int *"],
     [fn |-> "p_ul", typefn |-> MOC_TYPES2BYTE(MOC_ULNG, MOC_PTR),
      tag |-> MOC_TYPES2BYTE(MOC_ULNG, MOC_PTR),
      stores |-> "unsigned long *", loads |-> "unsigned long *"],
     [fn |-> "p_fn", typefn |-> MOC_TYPES2BYTE(MOC_FUN, MOC_PTR),
      tag |-> MOC_TYPES2BYTE(MOC_FUN, MOC_PTR),
      stores |-> "moc_fnptr *", loads |-> "moc_fnptr *"],
     [fn |-> "cp", typefn |-> MOC_TYPES2BYTE(MOC_VOID, MOC_CPTR),
      tag |-> MOC_TYPES2BYTE(MOC_VOID, MOC_CPTR),
      stores |-> "const void *", loads |-> "const void *"],
     [fn |-> "cp_c", typefn |-> MOC_TYPES2BYTE(MOC_CHR, MOC_CPTR),
      tag |-> MOC_TYPES2BYTE(MOC_CHR, MOC_CPTR),
      stores |-> "const char *", loads |-> "const char *"],
     [fn |-> "cp_s", typefn |-> MOC_TYPES2BYTE(MOC_SHR, MOC_CPTR),
      tag |-> MOC_TYPES2BYTE(MOC_SHR, MOC_CPTR),
      stores |-> "const short *", loads |-> "const short *"],
     [fn |-> "cp_i", typefn |-> MOC_TYPES2BYTE(MOC_INT, MOC_CPTR),
      tag |-> MOC_TYPES2BYTE(MOC_INT, MOC_CPTR),
      stores |-> "const int *", loads |-> "const int *"],
     [fn |-> "cp_l", typefn |-> MOC_TYPES2BYTE(MOC_LNG, MOC_CPTR),
      tag |-> MOC_TYPES2BYTE(MOC_LNG, MOC_CPTR),
      stores |-> "const long *", loads |-> "const long *"],
     [fn |-> "cp_f", typefn |-> MOC_TYPES2BYTE(MOC_FLT, MOC_CPTR),
      tag |-> MOC_TYPES2BYTE(MOC_FLT, MOC_CPTR),
      stores |-> "const float *", loads |-> "const float *"],
     [fn |-> "cp_d", typefn |-> MOC_TYPES2BYTE(MOC_DBL, MOC_CPTR),
      tag |-> MOC_TYPES2BYTE(MOC_DBL, MOC_CPTR),
      stores |-> "const double *", loads |-> "const double *"],
     [fn |-> "cp_sc", typefn |-> MOC_TYPES2BYTE(MOC_SCHR, MOC_CPTR),
      tag |-> MOC_TYPES2BYTE(MOC_SCHR, MOC_CPTR),
      stores |-> "const signed char *", loads |-> "const signed char *"],
     [fn |-> "cp_uc", typefn |-> MOC_TYPES2BYTE(MOC_UCHR, MOC_CPTR),
      tag |-> MOC_TYPES2BYTE(MOC_UCHR, MOC_CPTR),
      stores |-> "const unsigned char *", loads |-> "const unsigned char *"],
     [fn |-> "cp_us", typefn |-> MOC_TYPES2BYTE(MOC_USHR, MOC_CPTR),
      tag |-> MOC_TYPES2BYTE(MOC_USHR, MOC_CPTR),
      stores |-> "const unsigned short *", loads |-> "const unsigned short *"],
     [fn |-> "cp_ui", typefn |-> MOC_TYPES2BYTE(MOC_UINT, MOC_CPTR),
      tag |-> MOC_TYPES2BYTE(MOC_UINT, MOC_CPTR),
      stores |-> "const unsigned int *", loads |-> "const unsigned int *"],
     [fn |-> "cp_ul", typefn |-> MOC_TYPES2BYTE(MOC_ULNG, MOC_CPTR),
      tag |-> MOC_TYPES2BYTE(MOC_ULNG, MOC_CPTR),
      stores |-> "const unsigned long *", loads |-> "const unsigned long *"],
     [fn |-> "cp_fn", typefn |-> MOC_TYPES2BYTE(MOC_FUN, MOC_CPTR),
      tag |-> MOC_TYPES2BYTE(MOC_FUN, MOC_CPTR),
      stores |-> "const moc_fnptr *", loads |-> "const moc_fnptr *"]
    >>

\* moc_type_<fn>()
moc_type_of(k) == k.typefn

\* moc_<fn>(val): the empty value, then the bytes of val written at the
\* address of the field data, then the type byte
moc_value_of(k, raw) ==
    IF k.stores = ""
    THEN [type |-> moc_emptyval.type, data |-> [i \in 1..SizeofData |-> 0]]
    ELSE [type |-> k.tag,
          data |-> [i \in 1..SizeofData |->
                      IF i <= SizeofC(k.stores) THEN raw[i] ELSE 0]]

\* a variant that reads the field data as an int whatever the type
moc_get_of_int(k, value) == [i \in 1..SizeofC("int") |-> value.data[i]]

\* moc_get_<fn>(value)
moc_get_of(k, value) == [i \in 1..SizeofC(k.loads) |-> value.data[i]]

(* ---------------------------------------------------------------------- *)
(* Matchers and responders.  A function pointer is modelled by the name   *)
(* of the function it points to.                                          *)
(* ---------------------------------------------------------------------- *)

moc_emptymtc == [mval |-> moc_emptyval, mtcfn |-> "NULL", mopts |-> 0]

moc_emptyrsp == [rval |-> moc_emptyval, rspfn |-> "NULL", ropts |-> 0]

moc_mparam(mtcfn, value) == [mval |-> value, mtcfn |-> mtcfn, mopts |-> 0]

moc_mparam_nochk(mtcfn, value) ==
    [mval |-> value, mtcfn |-> mtcfn, mopts |-> 128]

moc_xparam(nparam, mtcfn, value) ==
    [mval |-> value, mtcfn |-> mtcfn,
     mopts |-> IF nparam <= 0 \/ nparam >= MOC_MAXPARAMS
               THEN MOC_MAXPARAMS ELSE nparam]

moc_xparam_nochk(nparam, mtcfn, value) ==
    [mval |-> value, mtcfn |-> mtcfn,
     mopts |-> IF nparam <= 0 \/ nparam >= MOC_MAXPARAMS
               THEN MOC_MAXPARAMS ELSE 128 + nparam]

moc_xcall(mtcfn, value) ==
    [mval |-> value, mtcfn |-> mtcfn, mopts |-> 128 + MOC_MAXPARAMS]

moc_eq(value) == moc_mparam("moc_cmpeq", value)

moc_ne(value) == moc_mparam("moc_cmpne", value)

moc_lt(value) == moc_mparam("moc_cmplt", value)

moc_le(value) == moc_mparam("moc_cmple", value)

moc_gt(value) == moc_mparam("moc_cmpgt", value)

moc_ge(value) == moc_mparam("moc_cmpge", value)

moc_any_checked == moc_mparam("moc_mtctrue", moc_emptyval)

moc_any == moc_mparam_nochk("moc_mtctrue", moc_emptyval)

moc_any_i == moc_mparam("moc_mtctrue", moc_i(0))

moc_any_l == moc_mparam("moc_mtctrue", moc_l(0))

moc_rparam(nparam, rspfn, val) ==
    [rval |-> val, rspfn |-> rspfn,
     ropts |-> IF nparam <= 0 \/ nparam >= MOC_MAXPARAMS
               THEN MOC_MAXPARAMS ELSE nparam]

moc_rparam_nochk(nparam, rspfn, val) ==
    [rval |-> val, rspfn |-> rspfn,
     ropts |-> IF nparam <= 0 \/ nparam >= MOC_MAXPARAMS
               THEN MOC_MAXPARAMS ELSE 128 + nparam]

moc_rcall(rspfn, val) ==
    [rval |-> val, rspfn |-> rspfn, ropts |-> 128 + MOC_MAXPARAMS]

moc_return(val) == moc_rcall("moc_rsprt", val)

moc_count(ptr) == moc_rcall("moc_rspinc", ptr)

\* the call of a matcher function on one parameter: mtcfn.prm(param, mval)
CallMtcPrm(mtcfn, param, mval) ==
    CASE mtcfn = "moc_mtctrue" -> TRUE
      [] mtcfn = "moc_cmpeq" -> moc_cmpop(param, mval, "MOC_EQ")
      [] mtcfn = "moc_cmpne" -> moc_cmpop(param, mval, "MOC_NE")
      [] mtcfn = "moc_cmplt" -> moc_cmpop(param, mval, "MOC_LT")
      [] mtcfn = "moc_cmple" -> moc_cmpop(param, mval, "MOC_LE")
      [] mtcfn = "moc_cmpgt" -> moc_cmpop(param, mval, "MOC_GT")
      [] mtcfn = "moc_cmpge" -> moc_cmpop(param, mval, "MOC_GE")
      [] OTHER -> FALSE

\* a user-written whole-call matcher: true iff the call has as many
\* parameters as the stored int says
nparams_is(call, mval) == call.nparams = mval.data

\* the call of a matcher function on the whole call: mtcfn.cll(&call, mval)
CallMtcCll(mtcfn, call, mval) ==
    CASE mtcfn = "nparams_is" -> nparams_is(call, mval)
      [] OTHER -> FALSE

moc_matchers_eq(m1, m2) ==
    IF m1.mopts # m2.mopts
    THEN FALSE
    ELSE IF m1.mtcfn # m2.mtcfn
         THEN FALSE
         ELSE moc_values_eq(m1.mval, m2.mval)

\* a variant that does not take moc_cmpge as an ordering comparison
moc_iscmpfn_noge(mtc) ==
    mtc.mtcfn \in {"moc_cmplt", "moc_cmple", "moc_cmpgt"}

moc_iscmpfn(mtc) ==
    mtc.mtcfn \in {"moc_cmplt", "moc_cmple", "moc_cmpgt", "moc_cmpge"}

(* ---------------------------------------------------------------------- *)
(* Single-linked lists with a pointer to the last node.  The nodes live   *)
(* in the array lnods; a list is a pair of node indices.                  *)
(* ---------------------------------------------------------------------- *)

moc_inilist == [first |-> MOC_NULLNODE, last |-> MOC_NULLNODE]

moc_inilistnode(item, nitems) ==
    [item |-> item, next |-> MOC_NULLNODE, nitems |-> nitems]

\* a variant that inserts the node before the first node of the list
moc_inslastlistnode_first(lnods, lst, node) ==
    IF lst.first = MOC_NULLNODE
    THEN [lnods |-> lnods, lst |-> [first |-> node, last |-> node]]
    ELSE [lnods |-> [lnods EXCEPT ![node].next = lst.first],
          lst |-> [lst EXCEPT !.first = node]]

\* a variant that does not insert a node into an empty list
moc_inslastlistnode_lost(lnods, lst, node) ==
    IF lst.first = MOC_NULLNODE
    THEN [lnods |-> lnods, lst |-> lst]
    ELSE [lnods |-> [lnods EXCEPT ![lst.last].next = node],
          lst |-> [lst EXCEPT !.last = node]]

\* returns the node array and the list after the insertion
moc_inslastlistnode(lnods, lst, node) ==
    IF lst.first = MOC_NULLNODE
    THEN [lnods |-> lnods, lst |-> [first |-> node, last |-> node]]
    ELSE [lnods |-> [lnods EXCEPT ![lst.last].next = node],
          lst |-> [lst EXCEPT !.last = node]]

\* a variant that leaves the next of the removed node as it was
moc_delfirstlistnode_keepnext(lnods, lst) ==
    LET node == lst.first
        rest == lnods[node].next
    IN IF rest = MOC_NULLNODE
       THEN [lnods |-> lnods, lst |-> moc_inilist, node |-> node]
       ELSE [lnods |-> lnods, lst |-> [lst EXCEPT !.first = rest],
             node |-> node]

\* returns the node array, the list after the removal and the removed node
moc_delfirstlistnode(lnods, lst) ==
    LET node == lst.first
        rest == lnods[node].next
    IN IF rest = MOC_NULLNODE
       THEN [lnods |-> lnods, lst |-> moc_inilist, node |-> node]
       ELSE [lnods |-> [lnods EXCEPT ![node].next = MOC_NULLNODE],
             lst |-> [lst EXCEPT !.first = rest], node |-> node]

(* ---------------------------------------------------------------------- *)
(* The global context.  An operation works on an environment             *)
(*   [ctx     : the struct moc_context,                                   *)
(*    heap    : the caller's variables that stored addresses point to,    *)
(*    handled : the error functions invoked so far by this operation].    *)
(* ---------------------------------------------------------------------- *)

\* the content of a slot of the caller's buffer that was never written
Unset == "unset"

moc_init_error_t(errnum, funcname, pos, acttype, exptype) ==
    [errnum |-> errnum % ByteModulus, funcname |-> funcname,
     pos |-> pos % SizeModulus, exptype |-> exptype % ByteModulus,
     acttype |-> acttype % ByteModulus, errmsg |-> <<>>]

\* moc_error is written by the user of the library; the README and every
\* test of the repository define it to print moc_errmsg() and exit(1).
\* An error function installed with moc_set_errfn returns to the library.
ErrfnReturns(errfn) == errfn # "moc_error"

\* what moc_errmsg writes into errmsg: the description of the error and the
\* name, the position when it is not 0, and the actual and the expected
\* type when they are not both 0 (the expected one when it differs)
ErrmsgText(e) ==
    [desc |-> IF e.errnum <= MOC_ERR_INVNPARAM THEN e.errnum ELSE 0,
     funcname |-> e.funcname,
     pos |-> IF e.pos > 0 THEN <<e.pos>> ELSE <<>>,
     types |-> IF e.exptype # 0 \/ e.exptype # e.acttype
               THEN IF e.exptype # e.acttype
                    THEN <<e.acttype, e.exptype>>
                    ELSE <<e.acttype>>
               ELSE <<>>]

\* moc_errmsg(): the message is written when errmsg is empty; errmsg is the
\* empty sequence or holds the text
moc_errmsg(ctx) ==
    IF ctx.lasterr.errmsg = <<>>
    THEN [ctx EXCEPT !.lasterr.errmsg = <<ErrmsgText(ctx.lasterr)>>]
    ELSE ctx

\* an error function of a test that reads moc_errmsg() and returns
ErrfnReadsErrmsg(errfn) == errfn = "print_errfn"

\* "moc_ctx.errfn()": the call is recorded; exited says that the process
\* ended inside the error function
CallErrfn(E) ==
    [E EXCEPT !.ctx = IF ErrfnReadsErrmsg(E.ctx.errfn)
                      THEN moc_errmsg(@) ELSE @,
              !.handled = Append(@, E.ctx.errfn),
              !.exited = ~ErrfnReturns(E.ctx.errfn)]

\* a variant that saves the error data and calls no error function
moc_send_error_silent(E, errnum, funcname, pos, acttype, exptype) ==
    [E EXCEPT !.ctx.lasterr =
        moc_init_error_t(errnum, funcname, pos, acttype, exptype)]

\* a variant that leaves the message of the last error in errmsg
moc_send_error_stale(E, errnum, funcname, pos, acttype, exptype) ==
    CallErrfn([E EXCEPT !.ctx.lasterr =
                 [moc_init_error_t(errnum, funcname, pos, acttype, exptype)
                     EXCEPT !.errmsg = E.ctx.lasterr.errmsg]])

\* saves the error data and calls the installed error function
moc_send_error(E, errnum, funcname, pos, acttype, exptype) ==
    CallErrfn([E EXCEPT !.ctx.lasterr =
                 moc_init_error_t(errnum, funcname, pos, acttype, exptype)])

\* the zero-initialised static context of a program that has just started
moc_ctx_static ==
    [lasterr |-> [errnum |-> 0, funcname |-> <<>>, pos |-> 0, exptype |-> 0,
                  acttype |-> 0, errmsg |-> <<>>],
     errfn |-> "NULL",
     auxmatcs |-> [i \in 1..MOC_AUXMAX |-> moc_emptymtc],
     funcs |-> <<>>, maps |-> <<>>, matcs |-> <<>>, resps |-> <<>>,
     lnods |-> <<>>,
     maxfuncs |-> 0, nfuncs |-> 0, maxmaps |-> 0, nmaps |-> 0,
     maxmatcs |-> 0, nmatcs |-> 0, maxresps |-> 0, nresps |-> 0,
     maxlnods |-> 0, nlnods |-> 0]

\* a variant that leaves the error function as it was
moc_init_samefn(ctx, size) ==
    LET maxfuncs == (size \div (5 * SizeofFunction)) % SizeModulus
        maxmaps == (size \div (5 * SizeofMapping)) % SizeModulus
        maxmatcs == (size \div (5 * SizeofMatcher)) % SizeModulus
        maxresps == (size \div (5 * SizeofResponder)) % SizeModulus
        maxlnods == (size \div (5 * SizeofListnode)) % SizeModulus
    IN [ctx EXCEPT !.maxfuncs = maxfuncs, !.maxmaps = maxmaps,
                   !.maxmatcs = maxmatcs, !.maxresps = maxresps,
                   !.maxlnods = maxlnods,
                   !.nfuncs = 0, !.nmaps = 0, !.nmatcs = 0, !.nresps = 0,
                   !.nlnods = 0,
                   !.funcs = [i \in 1..maxfuncs |-> Unset],
                   !.maps = [i \in 1..maxmaps |-> Unset],
                   !.matcs = [i \in 1..maxmatcs |-> Unset],
                   !.resps = [i \in 1..maxresps |-> Unset],
                   !.lnods = [i \in 1..maxlnods |-> Unset]]

\* a variant that gives each kind a fourth of the buffer
moc_init_fourths(ctx, size) ==
    LET maxfuncs == (size \div (4 * SizeofFunction)) % SizeModulus
        maxmaps == (size \div (4 * SizeofMapping)) % SizeModulus
        maxmatcs == (size \div (4 * SizeofMatcher)) % SizeModulus
        maxresps == (size \div (4 * SizeofResponder)) % SizeModulus
        maxlnods == (size \div (4 * SizeofListnode)) % SizeModulus
    IN [ctx EXCEPT !.errfn = "moc_error",
                   !.maxfuncs = maxfuncs, !.maxmaps = maxmaps,
                   !.maxmatcs = maxmatcs, !.maxresps = maxresps,
                   !.maxlnods = maxlnods,
                   !.nfuncs = 0, !.nmaps = 0, !.nmatcs = 0, !.nresps = 0,
                   !.nlnods = 0,
                   !.funcs = [i \in 1..maxfuncs |-> Unset],
                   !.maps = [i \in 1..maxmaps |-> Unset],
                   !.matcs = [i \in 1..maxmatcs |-> Unset],
                   !.resps = [i \in 1..maxresps |-> Unset],
                   !.lnods = [i \in 1..maxlnods |-> Unset]]

\* the pointers moc_init sets with "restmem = mem" and "restmem +=
\* capacity * sizeof(element)", as offsets from mem in bytes: the five
\* regions begin at funcs, maps, matcs, resps and lnods, and the last ends
\* at rest
moc_init_regions(ctx) ==
    LET funcs == 0
        maps == funcs + ctx.maxfuncs * SizeofFunction
        matcs == maps + ctx.maxmaps * SizeofMapping
        resps == matcs + ctx.maxmatcs * SizeofMatcher
        lnods == resps + ctx.maxresps * SizeofResponder
    IN [funcs |-> funcs, maps |-> maps, matcs |-> matcs, resps |-> resps,
        lnods |-> lnods, rest |-> lnods + ctx.maxlnods * SizeofListnode]

\* moc_init(mem, size): mem is a buffer of the caller whose bytes were
\* never written; the five regions are carved from it, none is cleared
moc_init(ctx, size) ==
    LET maxfuncs == (size \div (5 * SizeofFunction)) % SizeModulus
        maxmaps == (size \div (5 * SizeofMapping)) % SizeModulus
        maxmatcs == (size \div (5 * SizeofMatcher)) % SizeModulus
        maxresps == (size \div (5 * SizeofResponder)) % SizeModulus
        maxlnods == (size \div (5 * SizeofListnode)) % SizeModulus
    IN [ctx EXCEPT !.errfn = "moc_error",
                   !.maxfuncs = maxfuncs, !.maxmaps = maxmaps,
                   !.maxmatcs = maxmatcs, !.maxresps = maxresps,
                   !.maxlnods = maxlnods,
                   !.nfuncs = 0, !.nmaps = 0, !.nmatcs = 0, !.nresps = 0,
                   !.nlnods = 0,
                   !.funcs = [i \in 1..maxfuncs |-> Unset],
                   !.maps = [i \in 1..maxmaps |-> Unset],
                   !.matcs = [i \in 1..maxmatcs |-> Unset],
                   !.resps = [i \in 1..maxresps |-> Unset],
                   !.lnods = [i \in 1..maxlnods |-> Unset]]

\* a buffer of zero bytes (a static array that was never written), seen as
\* the five regions moc_init carves from it for a size
ZeroBuffer(size) ==
    [funcs |-> [i \in 1..((size \div (5 * SizeofFunction)) % SizeModulus) |->
                  [lmaps |-> moc_inilist, name |-> <<>>, nparams |-> 0]],
     maps |-> [i \in 1..((size \div (5 * SizeofMapping)) % SizeModulus) |->
                  [lresps |-> moc_inilist, matchers |-> 0, nxmatchers |-> 0]],
     matcs |-> [i \in 1..((size \div (5 * SizeofMatcher)) % SizeModulus) |->
                  moc_emptymtc],
     resps |-> [i \in 1..((size \div (5 * SizeofResponder)) % SizeModulus) |->
                  moc_emptyrsp],
     lnods |-> [i \in 1..((size \div (5 * SizeofListnode)) % SizeModulus) |->
                  moc_inilistnode(0, 0)]]

\* the buffer the context was initialised with, as it is now
SameBuffer(ctx) ==
    [funcs |-> ctx.funcs, maps |-> ctx.maps, matcs |-> ctx.matcs,
     resps |-> ctx.resps, lnods |-> ctx.lnods]

\* a variant that keeps the counts of the context
moc_init_mem_keep(ctx, size, mem) ==
    [moc_init(ctx, size) EXCEPT
        !.nfuncs = ctx.nfuncs, !.nmaps = ctx.nmaps, !.nmatcs = ctx.nmatcs,
        !.nresps = ctx.nresps, !.nlnods = ctx.nlnods,
        !.funcs = mem.funcs, !.maps = mem.maps, !.matcs = mem.matcs,
        !.resps = mem.resps, !.lnods = mem.lnods]

\* moc_init(mem, size) for a buffer whose bytes are known: the regions
\* point into the buffer and show what it holds
moc_init_mem(ctx, size, mem) ==
    [moc_init(ctx, size) EXCEPT
        !.funcs = mem.funcs, !.maps = mem.maps, !.matcs = mem.matcs,
        !.resps = mem.resps, !.lnods = mem.lnods]

moc_set_errfn(ctx, errfn) == [ctx EXCEPT !.errfn = errfn]

\* moc_match_0 .. moc_match_7: the matchers are copied into the shared
\* array auxmatcs, whose other elements keep what earlier calls left
moc_match_n(ctx, mtcs) ==
    [ctx EXCEPT !.auxmatcs =
        [i \in 1..MOC_AUXMAX |-> IF i <= Len(mtcs) THEN mtcs[i] ELSE @[i]]]

(* ---------------------------------------------------------------------- *)
(* Configuration: moc_given_nnn.                                          *)
(* ---------------------------------------------------------------------- *)

RECURSIVE FindFunction_anyname(_, _, _, _)
\* a variant that takes the first slot with the given number of parameters,
\* whatever its name
FindFunction_anyname(ctx, f, funcname, nparams) ==
    IF f > ctx.nfuncs
    THEN f
    ELSE IF ctx.funcs[f].nparams = nparams
         THEN f
         ELSE FindFunction_anyname(ctx, f + 1, funcname, nparams)

RECURSIVE FindFunction(_, _, _, _)
\* the loop "for (f = 0; f < nf; f++)": the first slot from f on with the
\* given name and number of parameters, or nfuncs + 1
FindFunction(ctx, f, funcname, nparams) ==
    IF f > ctx.nfuncs
    THEN f
    ELSE IF /\ ctx.funcs[f].nparams = nparams
            /\ moc_strcmp(ctx.funcs[f].name, funcname) = 0
         THEN f
         ELSE FindFunction(ctx, f + 1, funcname, nparams)

RECURSIVE FirstEqualMatcher(_, _, _, _, _)
\* the loop "for (m = 0; m < nmatchers + nxmatchers; m++)" of the mapping
\* search: the value of m when the loop ends (positions count from 0)
FirstEqualMatcher(ctx, map, matchers, m, total) ==
    IF m >= total
    THEN m
    ELSE IF moc_matchers_eq(ctx.matcs[map.matchers + m], matchers[m + 1])
         THEN m
         ELSE FirstEqualMatcher(ctx, map, matchers, m + 1, total)

RECURSIVE SearchMapping(_, _, _, _, _)
\* the loop "while (mnode != MOC_NULLNODE)" of the mapping search: the
\* node of the mapping the new responders are added to, or MOC_NULLNODE
SearchMapping(ctx, mnode, matchers, nmatchers, nxmatchers) ==
    IF mnode = MOC_NULLNODE
    THEN MOC_NULLNODE
    ELSE LET map == ctx.maps[ctx.lnods[mnode].item]
         IN IF nxmatchers # map.nxmatchers
            THEN SearchMapping(ctx, ctx.lnods[mnode].next, matchers,
                               nmatchers, nxmatchers)
            ELSE IF FirstEqualMatcher(ctx, map, matchers, 0,
                                      nmatchers + nxmatchers)
                        < nmatchers + nxmatchers
                 THEN mnode
                 ELSE SearchMapping(ctx, ctx.lnods[mnode].next, matchers,
                                    nmatchers, nxmatchers)

RECURSIVE FirstInvalidType(_, _, _)
\* the first index from i on of an element whose value has no valid type,
\* or n + 1
FirstInvalidType(types, i, n) ==
    IF i > n
    THEN i
    ELSE IF moc_isvalidtype(types[i])
         THEN FirstInvalidType(types, i + 1, n)
         ELSE i

\* the commit part of moc_given_nnn, after every check has passed
GivenCommit(ctx, fidx, mnode, nfuncsinc, nm, ms, nxm, xms, nr, rs) ==
    LET c1 == [ctx EXCEPT !.nfuncs = (@ + nfuncsinc) % SizeModulus]
        isnew == mnode = MOC_NULLNODE
        mapidx == IF isnew THEN c1.nmaps + 1
                  ELSE c1.lnods[mnode].item
        newmnode == c1.nlnods + 1
        ins1 == moc_inslastlistnode(
                    [c1.lnods EXCEPT ![newmnode] = moc_inilistnode(mapidx, 1)],
                    c1.funcs[fidx].lmaps, newmnode)
        c2 == IF isnew
              THEN [c1 EXCEPT
                      !.nmaps = (@ + 1) % SizeModulus,
                      !.nlnods = (@ + 1) % SizeModulus,
                      !.lnods = ins1.lnods,
                      !.funcs[fidx].lmaps = ins1.lst,
                      !.maps[mapidx] =
                          [lresps |-> moc_inilist,
                           matchers |-> c1.nmatcs + 1,
                           nxmatchers |-> nxm],
                      !.nmatcs = (@ + nm + nxm) % SizeModulus,
                      !.matcs = [i \in DOMAIN @ |->
                          IF i > c1.nmatcs /\ i <= c1.nmatcs + nm
                          THEN ms[i - c1.nmatcs]
                          ELSE IF /\ i > c1.nmatcs + nm
                                  /\ i <= c1.nmatcs + nm + nxm
                               THEN xms[i - c1.nmatcs - nm]
                               ELSE @[i]]]
              ELSE c1
        respidx == c2.nresps + 1
        rnode == c2.nlnods + 1
        ins2 == moc_inslastlistnode(
                    [c2.lnods EXCEPT
                        ![rnode] = moc_inilistnode(respidx, nr)],
                    c2.maps[mapidx].lresps, rnode)
    IN [c2 EXCEPT
          !.nresps = (@ + nr) % SizeModulus,
          !.nlnods = (@ + 1) % SizeModulus,
          !.lnods = ins2.lnods,
          !.maps[mapidx].lresps = ins2.lst,
          !.resps = [i \in DOMAIN @ |->
              IF i > c2.nresps /\ i <= c2.nresps + nr
              THEN rs[i - c2.nresps]
              ELSE @[i]]]

\* a variant that does not look at the number of responders
GivenLimit_noresps(ctx, mnode, nmatchers, nxmatchers, nresponders) ==
    IF mnode = MOC_NULLNODE /\ ctx.nmaps = ctx.maxmaps
    THEN MOC_ERR_NMAPLIMIT
    ELSE IF /\ mnode = MOC_NULLNODE
            /\ ctx.maxmatcs - ctx.nmatcs < nmatchers + nxmatchers
    THEN MOC_ERR_NMTCLIMIT
    ELSE IF ctx.maxlnods - ctx.nlnods
                < (IF mnode = MOC_NULLNODE THEN 1 ELSE 0) + 1
    THEN MOC_ERR_NNODLIMIT
    ELSE 0

\* a variant that does not look at the number of list nodes
GivenLimit_nonodes(ctx, mnode, nmatchers, nxmatchers, nresponders) ==
    IF mnode = MOC_NULLNODE /\ ctx.nmaps = ctx.maxmaps
    THEN MOC_ERR_NMAPLIMIT
    ELSE IF /\ mnode = MOC_NULLNODE
            /\ ctx.maxmatcs - ctx.nmatcs < nmatchers + nxmatchers
    THEN MOC_ERR_NMTCLIMIT
    ELSE IF ctx.maxresps - ctx.nresps < nresponders
    THEN MOC_ERR_NRSPLIMIT
    ELSE 0

\* "Checks if there is enough memory to add the mapping": the number of the
\* error to report, or 0; mnode is MOC_NULLNODE when a mapping is to be
\* added
GivenLimit(ctx, mnode, nmatchers, nxmatchers, nresponders) ==
    IF mnode = MOC_NULLNODE /\ ctx.nmaps = ctx.maxmaps
    THEN MOC_ERR_NMAPLIMIT
    ELSE IF /\ mnode = MOC_NULLNODE
            /\ ctx.maxmatcs - ctx.nmatcs < nmatchers + nxmatchers
    THEN MOC_ERR_NMTCLIMIT
    ELSE IF ctx.maxlnods - ctx.nlnods
                < (IF mnode = MOC_NULLNODE THEN 1 ELSE 0) + 1
    THEN MOC_ERR_NNODLIMIT
    ELSE IF ctx.maxresps - ctx.nresps < nresponders
    THEN MOC_ERR_NRSPLIMIT
    ELSE 0

\* matchers, xmatchers and responders are the arrays the three groups
\* point to; only their first nmatchers, nxmatchers and nresponders
\* elements belong to the groups
moc_given_nnn(E, funcname, nmatchers, matchers, nxmatchers, xmatchers, nresponders, responders) ==
    LET ctx == E.ctx
        nf == ctx.nfuncs
        f == FindFunction(ctx, 1, funcname, nmatchers)
        found == f <= nf
        \* "func = moc_ctx.funcs + nf" is written before the other checks
        E1 == IF found \/ nf = ctx.maxfuncs
              THEN E
              ELSE [E EXCEPT !.ctx.funcs[nf + 1] =
                       [lmaps |-> moc_inilist, name |-> funcname,
                        nparams |-> nmatchers]]
        mnode == IF found
                 THEN SearchMapping(ctx, ctx.funcs[f].lmaps.first, matchers,
                                    nmatchers, nxmatchers)
                 ELSE MOC_NULLNODE
        nfuncsinc == IF found THEN 0 ELSE 1
        limit == GivenLimit(ctx, mnode, nmatchers, nxmatchers, nresponders)
        types == [i \in 1..(nmatchers + nxmatchers + nresponders) |->
                    IF i <= nmatchers THEN matchers[i].mval.type
                    ELSE IF i <= nmatchers + nxmatchers
                         THEN xmatchers[i - nmatchers].mval.type
                         ELSE responders[i - nmatchers - nxmatchers].rval.type]
        pos == FirstInvalidType(types, 1,
                                nmatchers + nxmatchers + nresponders)
    IN IF ~found /\ nf = ctx.maxfuncs
       THEN moc_send_error(E, MOC_ERR_NFUNLIMIT, funcname, 0, 0, 0)
       ELSE IF limit # 0
       THEN moc_send_error(E1, limit, funcname, 0, 0, 0)
       ELSE IF pos <= nmatchers + nxmatchers + nresponders
       THEN moc_send_error(E1, MOC_ERR_INVALTYPE, funcname, pos,
                           types[pos], types[pos])
       ELSE [E1 EXCEPT !.ctx =
                GivenCommit(E1.ctx, IF found THEN f ELSE nf + 1, mnode,
                            nfuncsinc, nmatchers, matchers, nxmatchers,
                            xmatchers, nresponders, responders)]

\* moc_given(funcname, moc_match_n(..), moc_respond_n(..)): the group of
\* matchers points to auxmatcs, and is passed as the extra matchers too
moc_given(E, funcname, mtcs, rsps) ==
    LET E1 == [E EXCEPT !.ctx = moc_match_n(@, mtcs)]
    IN moc_given_nnn(E1, funcname, Len(mtcs), E1.ctx.auxmatcs, 0,
                     E1.ctx.auxmatcs, Len(rsps), rsps)

\* moc_given_extra(funcname, moc_match_n(..), moc_xmatch_n(..),
\* moc_respond_n(..))
moc_given_extra(E, funcname, mtcs, xmtcs, rsps) ==
    LET E1 == [E EXCEPT !.ctx = moc_match_n(@, mtcs)]
    IN moc_given_nnn(E1, funcname, Len(mtcs), E1.ctx.auxmatcs, Len(xmtcs),
                     xmtcs, Len(rsps), rsps)

(* ---------------------------------------------------------------------- *)
(* Dispatch: moc_chkmtc, moc_chkrsp and moc_act_n.                         *)
(* ---------------------------------------------------------------------- *)

\* a variant that compares the types of an ordinary matcher and of its
\* parameter whatever the mode of the matcher
moc_chkmtc_allchk(E, pm, pos, funcname, nparams, params) ==
    IF pos <= nparams /\ pm.mval.type # params[pos].type
    THEN [ok |-> FALSE,
          E |-> moc_send_error(E, MOC_ERR_PARAMTYPE, funcname, pos,
                               params[pos].type, pm.mval.type)]
    ELSE [ok |-> TRUE, E |-> E]

\* a variant that takes every matcher as valid for the call
moc_chkmtc_nochk(E, pm, pos, funcname, nparams, params) ==
    [ok |-> TRUE, E |-> E]

\* a variant that takes a matcher of any mode at an ordinary position
moc_chkmtc_anymode(E, pm, pos, funcname, nparams, params) ==
    LET opts == pm.mopts
        type == pm.mval.type
    IN IF pos > nparams /\ (opts = 0 \/ opts = 128)
       THEN [ok |-> FALSE,
             E |-> moc_send_error(E, MOC_ERR_INVALMTCH, funcname, pos, 0, 0)]
       ELSE IF /\ pos > nparams
               /\ \/ opts = MOC_MAXPARAMS
                  \/ (opts < MOC_MAXPARAMS /\ opts > nparams)
                  \/ /\ opts > 128
                     /\ opts < 128 + MOC_MAXPARAMS
                     /\ opts - 128 > nparams
       THEN [ok |-> FALSE,
             E |-> moc_send_error(E, MOC_ERR_INVNPARAM, funcname, pos, 0, 0)]
       ELSE IF ~moc_isvalidtype(type)
       THEN [ok |-> FALSE,
             E |-> moc_send_error(E, MOC_ERR_INVALTYPE, funcname, pos,
                                  type, type)]
       ELSE IF type = MOC_TYPES2BYTE(MOC_FUN, MOC_NOPTR) /\ moc_iscmpfn(pm)
       THEN [ok |-> FALSE,
             E |-> moc_send_error(E, MOC_ERR_INVALOPER, funcname, pos, 0, 0)]
       ELSE IF /\ pos <= nparams
               /\ opts < MOC_MAXPARAMS
               /\ type # params[pos].type
       THEN [ok |-> FALSE,
             E |-> moc_send_error(E, MOC_ERR_PARAMTYPE, funcname, pos,
                                  params[pos].type, type)]
       ELSE IF /\ pos > nparams
               /\ opts < MOC_MAXPARAMS
               /\ type # params[opts].type
       THEN [ok |-> FALSE,
             E |-> moc_send_error(E, MOC_ERR_PARAMTYPE, funcname, pos,
                                  params[opts].type, type)]
       ELSE [ok |-> TRUE, E |-> E]

\* a variant that reports an extra matcher that names no parameter of the
\* call as a matcher out of its place
moc_chkmtc_asplacement(E, pm, pos, funcname, nparams, params) ==
    LET opts == pm.mopts
        type == pm.mval.type
    IN IF \/ (pos <= nparams /\ opts # 0 /\ opts # 128)
          \/ (pos > nparams /\ (opts = 0 \/ opts = 128))
          \/ /\ pos > nparams
             /\ \/ opts = MOC_MAXPARAMS
                \/ (opts < MOC_MAXPARAMS /\ opts > nparams)
                \/ /\ opts > 128
                   /\ opts < 128 + MOC_MAXPARAMS
                   /\ opts - 128 > nparams
       THEN [ok |-> FALSE,
             E |-> moc_send_error(E, MOC_ERR_INVALMTCH, funcname, pos, 0, 0)]
       ELSE IF ~moc_isvalidtype(type)
       THEN [ok |-> FALSE,
             E |-> moc_send_error(E, MOC_ERR_INVALTYPE, funcname, pos,
                                  type, type)]
       ELSE IF type = MOC_TYPES2BYTE(MOC_FUN, MOC_NOPTR) /\ moc_iscmpfn(pm)
       THEN [ok |-> FALSE,
             E |-> moc_send_error(E, MOC_ERR_INVALOPER, funcname, pos, 0, 0)]
       ELSE IF /\ pos <= nparams
               /\ opts < MOC_MAXPARAMS
               /\ type # params[pos].type
       THEN [ok |-> FALSE,
             E |-> moc_send_error(E, MOC_ERR_PARAMTYPE, funcname, pos,
                                  params[pos].type, type)]
       ELSE IF /\ pos > nparams
               /\ opts < MOC_MAXPARAMS
               /\ type # params[opts].type
       THEN [ok |-> FALSE,
             E |-> moc_send_error(E, MOC_ERR_PARAMTYPE, funcname, pos,
                                  params[opts].type, type)]
       ELSE [ok |-> TRUE, E |-> E]

\* returns [ok, E]: whether the matcher at position pos (from 1) is valid
\* for this call, and the environment after the error report if it is not
moc_chkmtc(E, pm, pos, funcname, nparams, params) ==
    LET opts == pm.mopts
        type == pm.mval.type
    IN IF \/ (pos <= nparams /\ opts # 0 /\ opts # 128)
          \/ (pos > nparams /\ (opts = 0 \/ opts = 128))
       THEN [ok |-> FALSE,
             E |-> moc_send_error(E, MOC_ERR_INVALMTCH, funcname, pos, 0, 0)]
       ELSE IF /\ pos > nparams
               /\ \/ opts = MOC_MAXPARAMS
                  \/ (opts < MOC_MAXPARAMS /\ opts > nparams)
                  \/ /\ opts > 128
                     /\ opts < 128 + MOC_MAXPARAMS
                     /\ opts - 128 > nparams
       THEN [ok |-> FALSE,
             E |-> moc_send_error(E, MOC_ERR_INVNPARAM, funcname, pos, 0, 0)]
       ELSE IF ~moc_isvalidtype(type)
       THEN [ok |-> FALSE,
             E |-> moc_send_error(E, MOC_ERR_INVALTYPE, funcname, pos,
                                  type, type)]
       ELSE IF type = MOC_TYPES2BYTE(MOC_FUN, MOC_NOPTR) /\ moc_iscmpfn(pm)
       THEN [ok |-> FALSE,
             E |-> moc_send_error(E, MOC_ERR_INVALOPER, funcname, pos, 0, 0)]
       ELSE IF /\ pos <= nparams
               /\ opts < MOC_MAXPARAMS
               /\ type # params[pos].type
       THEN [ok |-> FALSE,
             E |-> moc_send_error(E, MOC_ERR_PARAMTYPE, funcname, pos,
                                  params[pos].type, type)]
       ELSE IF /\ pos > nparams
               /\ opts < MOC_MAXPARAMS
               /\ type # params[opts].type
       THEN [ok |-> FALSE,
             E |-> moc_send_error(E, MOC_ERR_PARAMTYPE, funcname, pos,
                                  params[opts].type, type)]
       ELSE [ok |-> TRUE, E |-> E]

\* returns [ok, E] for the responder at position pos
moc_chkrsp(E, pr, pos, funcname, nparams, params) ==
    LET opts == pr.ropts
        type == pr.rval.type
    IN IF \/ opts = 0
          \/ opts = MOC_MAXPARAMS
          \/ (opts < MOC_MAXPARAMS /\ opts > nparams)
          \/ (opts > 128 /\ opts < 128 + MOC_MAXPARAMS
                /\ opts - 128 > nparams)
       THEN [ok |-> FALSE,
             E |-> moc_send_error(E, MOC_ERR_INVNPARAM, funcname, pos, 0, 0)]
       ELSE IF ~moc_isvalidtype(type)
       THEN [ok |-> FALSE,
             E |-> moc_send_error(E, MOC_ERR_INVALTYPE, funcname, pos,
                                  type, type)]
       ELSE IF opts < MOC_MAXPARAMS /\ type # params[opts].type
       THEN [ok |-> FALSE,
             E |-> moc_send_error(E, MOC_ERR_PARAMTYPE, funcname, pos,
                                  params[opts].type, type)]
       ELSE [ok |-> TRUE, E |-> E]

\* the call matchers and responders of kind "whole call" receive
moc_call(funcname, nparams, params) ==
    [funcname |-> funcname, nparams |-> nparams, params |-> params]

\* a variant that passes to an extra matcher the parameter at the place the
\* matcher has among the extra matchers
MatchOne_ownplace(E, pm, m, funcname, nparams, params) ==
    LET chk == moc_chkmtc(E, pm, m + 1, funcname, nparams, params)
        opts == pm.mopts
        i == IF m < nparams THEN m ELSE m - nparams
    IN IF ~chk.ok
       THEN [res |-> "error", E |-> chk.E]
       ELSE IF opts = 128 + MOC_MAXPARAMS
            THEN [res |-> IF CallMtcCll(pm.mtcfn,
                                moc_call(funcname, nparams, params), pm.mval)
                          THEN "true" ELSE "false",
                  E |-> E]
            ELSE [res |-> IF CallMtcPrm(pm.mtcfn, params[i + 1], pm.mval)
                          THEN "true" ELSE "false",
                  E |-> E]

\* the result of one matcher of a mapping: "error", "false" or "true"
MatchOne(E, pm, m, funcname, nparams, params) ==
    LET chk == moc_chkmtc(E, pm, m + 1, funcname, nparams, params)
        opts == pm.mopts
        i == IF m < nparams THEN m
             ELSE IF opts > 128 THEN opts - 128 - 1 ELSE opts - 1
    IN IF ~chk.ok
       THEN [res |-> "error", E |-> chk.E]
       ELSE IF opts = 128 + MOC_MAXPARAMS
            THEN [res |-> IF CallMtcCll(pm.mtcfn,
                                moc_call(funcname, nparams, params), pm.mval)
                          THEN "true" ELSE "false",
                  E |-> E]
            ELSE [res |-> IF CallMtcPrm(pm.mtcfn, params[i + 1], pm.mval)
                          THEN "true" ELSE "false",
                  E |-> E]

RECURSIVE MatchMapping(_, _, _, _, _, _)
\* the loop "for (m = 0; m < nparams + map->nxmatchers; m++)" of moc_act_n:
\* [res, E, m] with res "error" (the dispatch ends), "false" (a matcher
\* did not match, at m) or "true" (m has reached the number of matchers)
MatchMapping(E, map, m, funcname, nparams, params) ==
    IF m >= nparams + map.nxmatchers
    THEN [res |-> "true", E |-> E, m |-> m]
    ELSE LET one == MatchOne(E, E.ctx.matcs[map.matchers + m], m, funcname,
                             nparams, params)
         IN IF one.res = "true"
            THEN MatchMapping(E, map, m + 1, funcname, nparams, params)
            ELSE [res |-> one.res, E |-> one.E, m |-> m]

RECURSIVE SelectMapping_goeson(_, _, _, _, _)
\* a variant that, after the error of a matcher has been reported, goes
\* on to the next mapping
SelectMapping_goeson(E, mnode, funcname, nparams, params) ==
    IF mnode = MOC_NULLNODE
    THEN [res |-> "none", E |-> E, mnode |-> MOC_NULLNODE, m |-> 0]
    ELSE LET map == E.ctx.maps[E.ctx.lnods[mnode].item]
             mm == MatchMapping(E, map, 0, funcname, nparams, params)
         IN IF mm.res = "true"
            THEN [res |-> "found", E |-> E, mnode |-> mnode, m |-> mm.m]
            ELSE SelectMapping_goeson(mm.E, E.ctx.lnods[mnode].next,
                                      funcname, nparams, params)

RECURSIVE SelectMapping(_, _, _, _, _)
\* the loop "while (mnode != MOC_NULLNODE)" of moc_act_n: [res, E, mnode, m]
\* with res "error", "none" (mnode is MOC_NULLNODE) or "found"
SelectMapping(E, mnode, funcname, nparams, params) ==
    IF mnode = MOC_NULLNODE
    THEN [res |-> "none", E |-> E, mnode |-> MOC_NULLNODE, m |-> 0]
    ELSE LET map == E.ctx.maps[E.ctx.lnods[mnode].item]
             mm == MatchMapping(E, map, 0, funcname, nparams, params)
         IN IF mm.res = "error"
            THEN [res |-> "error", E |-> mm.E, mnode |-> mnode, m |-> mm.m]
            ELSE IF mm.res = "true"
                 THEN [res |-> "found", E |-> E, mnode |-> mnode, m |-> mm.m]
                 ELSE SelectMapping(E, E.ctx.lnods[mnode].next, funcname,
                                    nparams, params)

RECURSIVE CheckResponders(_, _, _, _, _, _, _, _)
\* the loop over moc_chkrsp: [ok, E] after the first responder that fails
CheckResponders(E, responders, r, nitems, m, funcname, nparams, params) ==
    IF r >= nitems
    THEN [ok |-> TRUE, E |-> E]
    ELSE LET chk == moc_chkrsp(E, E.ctx.resps[responders + r], 1 + r + m,
                               funcname, nparams, params)
         IN IF chk.ok
            THEN CheckResponders(E, responders, r + 1, nitems, m, funcname,
                                 nparams, params)
            ELSE chk

\* moc_rsprt: the responder function of moc_return
moc_rsprt(heap, call, val) == [val |-> val, heap |-> heap]

\* a variant that adds 1 to the variable only while it is 0
moc_rspinc_once(heap, call, val) ==
    IF /\ MOC_PTRTYPE(val.type) = MOC_PTR
       /\ MOC_STDTYPE(val.type) >= MOC_CHR
       /\ MOC_STDTYPE(val.type) <= MOC_ULNG
       /\ heap[val.data] = 0
    THEN [val |-> moc_emptyval,
          heap |-> [heap EXCEPT ![val.data] = @ + 1]]
    ELSE [val |-> moc_emptyval, heap |-> heap]

\* moc_rspinc: the responder function of moc_count
moc_rspinc(heap, call, val) ==
    IF /\ MOC_PTRTYPE(val.type) = MOC_PTR
       /\ MOC_STDTYPE(val.type) >= MOC_CHR
       /\ MOC_STDTYPE(val.type) <= MOC_ULNG
    THEN [val |-> moc_emptyval,
          heap |-> [heap EXCEPT ![val.data] = @ + 1]]
    ELSE [val |-> moc_emptyval, heap |-> heap]

\* a user-written responder function on one parameter: returns it
echo_param(param, val) == param

\* the call of a responder function: rspfn.cll(&call, rval) for the whole
\* call, rspfn.prm(params[i], rval) for one parameter
CallRsp(heap, pr, funcname, nparams, params) ==
    LET opts == pr.ropts
        i == IF opts > 128 THEN opts - 128 - 1 ELSE opts - 1
    IN IF opts = 128 + MOC_MAXPARAMS
       THEN CASE pr.rspfn = "moc_rsprt" ->
                   moc_rsprt(heap, moc_call(funcname, nparams, params),
                             pr.rval)
              [] pr.rspfn = "moc_rspinc" ->
                   moc_rspinc(heap, moc_call(funcname, nparams, params),
                              pr.rval)
              [] OTHER -> [val |-> moc_emptyval, heap |-> heap]
       ELSE CASE pr.rspfn = "echo_param" ->
                   [val |-> echo_param(params[i + 1], pr.rval),
                    heap |-> heap]
              [] OTHER -> [val |-> moc_emptyval, heap |-> heap]

\* a variant that calls the last responder only
RunResponders_last(acc, ctx, responders, r, nitems, funcname, nparams, params) ==
    IF r >= nitems
    THEN acc
    ELSE LET res == CallRsp(acc.heap, ctx.resps[responders + nitems - 1],
                            funcname, nparams, params)
         IN [retval |-> res.val, heap |-> res.heap,
             ran |-> Append(acc.ran, responders + nitems - 1)]

RECURSIVE RunResponders(_, _, _, _, _, _, _, _)
\* the loop that executes the responders: [retval, heap, ran], ran being
\* the slots of the responders that were called, in the order of the calls
RunResponders(acc, ctx, responders, r, nitems, funcname, nparams, params) ==
    IF r >= nitems
    THEN acc
    ELSE LET out == CallRsp(acc.heap, ctx.resps[responders + r], funcname,
                            nparams, params)
         IN RunResponders([retval |-> out.val, heap |-> out.heap,
                           ran |-> Append(acc.ran, responders + r)],
                          ctx, responders, r + 1, nitems, funcname, nparams,
                          params)

\* a variant that leaves the list of responders as it is
RotateResponders_none(ctx, mapidx) == ctx

\* a variant that removes the first responders and does not insert them
RotateResponders_drop(ctx, mapidx) ==
    LET del == moc_delfirstlistnode(ctx.lnods, ctx.maps[mapidx].lresps)
    IN [ctx EXCEPT !.lnods = del.lnods, !.maps[mapidx].lresps = del.lst]

\* "Moves the first responders to the end of the list", when the list
\* holds more than one node
RotateResponders(ctx, mapidx) ==
    LET rnode == ctx.maps[mapidx].lresps.first
        del == moc_delfirstlistnode(ctx.lnods, ctx.maps[mapidx].lresps)
        ins == moc_inslastlistnode(del.lnods, del.lst, del.node)
    IN IF ctx.lnods[rnode].next # MOC_NULLNODE
       THEN [ctx EXCEPT !.lnods = ins.lnods, !.maps[mapidx].lresps = ins.lst]
       ELSE ctx

\* The result of a dispatch is [E, retval, sel, grp, ran]: the environment
\* after the call, the value returned, the slot of the mapping whose
\* responders were taken and the list node of these responders (0 if
\* none), and the slots of the responders that were called.  moc_act_n is
\* written in stages, each stage receiving what the code has computed so
\* far.

\* the end of moc_act_n: E2 is the environment after the check of the type
\* of the value returned; the first responders are moved unless the error
\* function has ended the process
ActRotate(E2, run, mapidx, rnode) ==
    [E |-> IF ~E2.exited
           THEN [E2 EXCEPT !.ctx = RotateResponders(@, mapidx)]
           ELSE E2,
     retval |-> run.retval, sel |-> mapidx, grp |-> rnode, ran |-> run.ran]

\* a variant that ends the call when the type of the value is not the
\* declared one: the void value is returned and no responders are moved
ActReturn_neutral(E, run, mapidx, rnode, funcname, rettype) ==
    IF run.retval.type # rettype
    THEN [E |-> moc_send_error([E EXCEPT !.heap = run.heap],
                               MOC_ERR_RETURTYPE, funcname, 0,
                               run.retval.type, rettype),
          retval |-> moc_emptyval, sel |-> mapidx, grp |-> rnode,
          ran |-> run.ran]
    ELSE ActRotate([E EXCEPT !.heap = run.heap], run, mapidx, rnode)

\* "if (MOC_VALBYTE(retval) != rettype)": run is what the responders gave
ActReturn(E, run, mapidx, rnode, funcname, rettype) ==
    ActRotate(IF run.retval.type # rettype
              THEN moc_send_error([E EXCEPT !.heap = run.heap],
                                  MOC_ERR_RETURTYPE, funcname, 0,
                                  run.retval.type, rettype)
              ELSE [E EXCEPT !.heap = run.heap],
              run, mapidx, rnode)

\* a variant that calls the first responder of the group as soon as its
\* own check has passed, before the checks of the responders behind it
ActRespond_interleaved(E, chk, mapidx, rnode, funcname, rettype, nparams, params) ==
    IF ~chk.ok
    THEN IF moc_chkrsp(E, E.ctx.resps[E.ctx.lnods[rnode].item], 1, funcname,
                       nparams, params).ok
         THEN [E |-> [chk.E EXCEPT !.heap =
                         CallRsp(E.heap, E.ctx.resps[E.ctx.lnods[rnode].item],
                                 funcname, nparams, params).heap],
               retval |-> moc_emptyval, sel |-> mapidx, grp |-> rnode,
               ran |-> <<E.ctx.lnods[rnode].item>>]
         ELSE [E |-> chk.E, retval |-> moc_emptyval, sel |-> mapidx,
               grp |-> rnode, ran |-> <<>>]
    ELSE ActReturn(E,
                   RunResponders([retval |-> moc_emptyval, heap |-> E.heap,
                                  ran |-> <<>>],
                                 E.ctx, E.ctx.lnods[rnode].item, 0,
                                 E.ctx.lnods[rnode].nitems, funcname, nparams,
                                 params),
                   mapidx, rnode, funcname, rettype)

\* the execution of the first responders, chk being the result of their
\* check
ActRespond(E, chk, mapidx, rnode, funcname, rettype, nparams, params) ==
    IF ~chk.ok
    THEN [E |-> chk.E, retval |-> moc_emptyval, sel |-> mapidx,
          grp |-> rnode, ran |-> <<>>]
    ELSE ActReturn(E,
                   RunResponders([retval |-> moc_emptyval, heap |-> E.heap,
                                  ran |-> <<>>],
                                 E.ctx, E.ctx.lnods[rnode].item, 0,
                                 E.ctx.lnods[rnode].nitems, funcname, nparams,
                                 params),
                   mapidx, rnode, funcname, rettype)

\* "Checks the first responders of the mapping", m being the number of
\* matchers of the mapping
ActCheck(E, m, mapidx, rnode, funcname, rettype, nparams, params) ==
    ActRespond(E,
               CheckResponders(E, E.ctx.lnods[rnode].item, 0,
                               E.ctx.lnods[rnode].nitems, m, funcname,
                               nparams, params),
               mapidx, rnode, funcname, rettype, nparams, params)

\* a variant that reports that no mapping matched also when the search
\* ended with an error reported by a check
ActOnMapping_reports(E, sm, funcname, rettype, nparams, params) ==
    IF sm.res = "error" \/ sm.res = "none"
    THEN [E |-> moc_send_error(IF sm.res = "error" THEN sm.E ELSE E,
                               MOC_ERR_MAPNOTFND, funcname, nparams, 0, 0),
          retval |-> moc_emptyval, sel |-> 0, grp |-> 0, ran |-> <<>>]
    ELSE ActCheck(E, sm.m, E.ctx.lnods[sm.mnode].item,
                  E.ctx.maps[E.ctx.lnods[sm.mnode].item].lresps.first,
                  funcname, rettype, nparams, params)

\* what follows the search of the mapping, sm being its result
ActOnMapping(E, sm, funcname, rettype, nparams, params) ==
    IF sm.res = "error"
    THEN [E |-> sm.E, retval |-> moc_emptyval, sel |-> 0, grp |-> 0,
          ran |-> <<>>]
    ELSE IF sm.res = "none"
    THEN [E |-> moc_send_error(E, MOC_ERR_MAPNOTFND, funcname, nparams,
                               0, 0),
          retval |-> moc_emptyval, sel |-> 0, grp |-> 0, ran |-> <<>>]
    ELSE ActCheck(E, sm.m, E.ctx.lnods[sm.mnode].item,
                  E.ctx.maps[E.ctx.lnods[sm.mnode].item].lresps.first,
                  funcname, rettype, nparams, params)

\* what follows the search of the function, f being its slot
ActOnFunction(E, f, funcname, rettype, nparams, params) ==
    IF f = E.ctx.nfuncs + 1
    THEN [E |-> moc_send_error(E, MOC_ERR_FUNNOTFND, funcname, nparams,
                               0, 0),
          retval |-> moc_emptyval, sel |-> 0, grp |-> 0, ran |-> <<>>]
    ELSE ActOnMapping(E,
                      SelectMapping(E, E.ctx.funcs[f].lmaps.first, funcname,
                                    nparams, params),
                      funcname, rettype, nparams, params)

moc_act_n(E, funcname, rettype, nparams, params) ==
    ActOnFunction(E, FindFunction(E.ctx, 1, funcname, nparams), funcname,
                  rettype, nparams, params)

\* moc_act(funcname, rettype, moc_values_n(..))
moc_act(E, funcname, rettype, vals) ==
    moc_act_n(E, funcname, rettype, Len(vals), vals)

(* ---------------------------------------------------------------------- *)
(* The state machine: a test program that calls the library.  A call is   *)
(* one step; in the next step the test reads what the call gave back,     *)
(* sets its counter to 0 again and goes on.  A test whose error function  *)
(* exits makes no step after an error.                                    *)
(* ---------------------------------------------------------------------- *)

VARIABLES
    moc_ctx,    \* the global struct moc_context
    heap,       \* the variables of the test that stored addresses point to
    out         \* the call that has just ended and what the test saw of it

vars == <<moc_ctx, heap, out>>

\* the five counts, and the five capacities in the same order
Counts(ctx) == <<ctx.nfuncs, ctx.nmaps, ctx.nmatcs, ctx.nresps, ctx.nlnods>>

Capacities(ctx) ==
    <<ctx.maxfuncs, ctx.maxmaps, ctx.maxmatcs, ctx.maxresps, ctx.maxlnods>>

\* all sequences over S of length 0..n
SeqsUpTo(S, n) == UNION {[1..k -> S] : k \in 0..n}

\* the address of the counter of the test
CounterAddr == "counter"

HeapZero == [a \in {CounterAddr} |-> 0]

Env == [ctx |-> moc_ctx, heap |-> heap, handled |-> <<>>, exited |-> FALSE]

NoCall == [op |-> "none", funcname |-> <<>>, args |-> <<>>,
           retval |-> moc_emptyval, handled |-> <<>>, exited |-> FALSE,
           sel |-> 0, grp |-> 0, ran |-> <<>>]

Idle == out.op = "none"

DoInit(SZ) ==
    /\ Idle
    /\ \E size \in SZ :
        /\ moc_ctx' = moc_init(moc_ctx, size)
        /\ out' = [NoCall EXCEPT !.op = "moc_init", !.args = size]
        /\ UNCHANGED heap

\* moc_init with a buffer of zeros or, when the size is the one of the last
\* call, with the buffer of the last call
DoInitMem(SZ) ==
    /\ Idle
    /\ \E size \in SZ :
        \E mem \in {ZeroBuffer(size)} \cup
                    (IF Capacities(moc_init(moc_ctx, size))
                            = Capacities(moc_ctx)
                     THEN {SameBuffer(moc_ctx)} ELSE {}) :
            /\ moc_ctx' = moc_init_mem(moc_ctx, size, mem)
            /\ out' = [NoCall EXCEPT !.op = "moc_init", !.args = size]
            /\ UNCHANGED heap

DoSetErrfn(HS) ==
    /\ Idle
    /\ \E errfn \in HS :
        /\ moc_ctx' = moc_set_errfn(moc_ctx, errfn)
        /\ out' = [NoCall EXCEPT !.op = "moc_set_errfn", !.args = errfn]
        /\ UNCHANGED heap

DoGiven(NS, MLS, RGS) ==
    /\ Idle
    /\ \E funcname \in NS, mtcs \in MLS, rsps \in RGS :
        LET E == moc_given(Env, funcname, mtcs, rsps)
        IN /\ moc_ctx' = E.ctx
           /\ heap' = E.heap
           /\ out' = [NoCall EXCEPT !.op = "moc_given",
                        !.funcname = funcname,
                        !.args = [mtcs |-> mtcs, xmtcs |-> <<>>,
                                  rsps |-> rsps],
                        !.handled = E.handled, !.exited = E.exited]

DoGivenExtra(NS, MLS, XLS, RGS) ==
    /\ Idle
    /\ \E funcname \in NS, mtcs \in MLS, xmtcs \in XLS, rsps \in RGS :
        LET E == moc_given_extra(Env, funcname, mtcs, xmtcs, rsps)
        IN /\ moc_ctx' = E.ctx
           /\ heap' = E.heap
           /\ out' = [NoCall EXCEPT !.op = "moc_given_extra",
                        !.funcname = funcname,
                        !.args = [mtcs |-> mtcs, xmtcs |-> xmtcs,
                                  rsps |-> rsps],
                        !.handled = E.handled, !.exited = E.exited]

DoAct(NS, RTS, PLS) ==
    /\ Idle
    /\ \E funcname \in NS, rettype \in RTS, vals \in PLS :
        LET r == moc_act(Env, funcname, rettype, vals)
        IN /\ moc_ctx' = r.E.ctx
           /\ heap' = r.E.heap
           /\ out' = [op |-> "moc_act", funcname |-> funcname,
                      args |-> [rettype |-> rettype, vals |-> vals],
                      retval |-> IF r.E.exited THEN moc_emptyval
                                 ELSE r.retval,
                      handled |-> r.E.handled, exited |-> r.E.exited,
                      sel |-> r.sel, grp |-> r.grp, ran |-> r.ran]

\* the test goes on after a call that returned
Continue ==
    /\ ~Idle
    /\ ~out.exited
    /\ out' = NoCall
    /\ heap' = HeapZero
    /\ UNCHANGED moc_ctx

(* ---------------------------------------------------------------------- *)
(* Spec: tests that configure and call one mocked function name with up   *)
(* to MaxParams parameters, declare an int as its return type and keep    *)
(* the error function moc_error.                                          *)
(* ---------------------------------------------------------------------- *)

\* a buffer with room for MaxNodes list nodes
Sizes == {MaxNodes * 5 * SizeofListnode}

\* the names "f" and "g"
NameF == <<102>>

NameG == <<103>>

ParamValues == {moc_i(1), moc_i(2), moc_l(1)}

ParamLists == SeqsUpTo(ParamValues, MaxParams)

ReturnTypes == {moc_type_i}

Matchers == {moc_eq(moc_i(1)), moc_any, moc_any_i}

MatcherLists == SeqsUpTo(Matchers, MaxParams)

ResponderGroups ==
    {<<moc_return(moc_i(7))>>,
     <<moc_count(moc_p_l(CounterAddr)), moc_return(moc_i(8))>>}

Init ==
    /\ \E size \in Sizes : moc_ctx = moc_init(moc_ctx_static, size)
    /\ heap = HeapZero
    /\ out = NoCall

MocInit == DoInit(Sizes)

MocGiven == DoGiven({NameF}, MatcherLists, ResponderGroups)

MocAct == DoAct({NameF}, ReturnTypes, ParamLists)

Next == MocInit \/ MocGiven \/ MocAct \/ Continue

Spec == Init /\ [][Next]_vars

(* ---------------------------------------------------------------------- *)
(* SpecRet: tests whose configurations all give one responder, a return   *)
(* of an int, and whose mocked function returns an int.                   *)
(* ---------------------------------------------------------------------- *)

ReturnGroups == {<<moc_return(moc_i(7))>>, <<moc_return(moc_i(8))>>}

RetInit == DoInit(Sizes)

RetGiven == DoGiven({NameF}, MatcherLists, ReturnGroups)

RetAct == DoAct({NameF}, {moc_type_i}, ParamLists)

NextRet == RetInit \/ RetGiven \/ RetAct \/ Continue

SpecRet == Init /\ [][NextRet]_vars

(* ---------------------------------------------------------------------- *)
(* SpecErr: tests that install an error function that returns, so that    *)
(* a call that reports an error gives a value back and the test goes on.  *)
(* ---------------------------------------------------------------------- *)

\* a buffer with room for MaxNodes - 1 list nodes
SmallSizes == {(MaxNodes - 1) * 5 * SizeofListnode}

InitErr ==
    /\ \E size \in SmallSizes : moc_ctx = moc_init(moc_ctx_static, size)
    /\ heap = HeapZero
    /\ out = NoCall

ErrInit == DoInit(SmallSizes)

ErrSetErrfn == DoSetErrfn({"test_errfn"})

\* an equality before the untyped wildcard, and the typed wildcard at the
\* first and at the second position
ErrMatcherLists ==
    {l \in {<<moc_eq(moc_i(1)), moc_any>>, <<moc_any, moc_any_i>>,
            <<moc_eq(moc_i(1)), moc_any_i>>, <<moc_any_i>>,
            <<moc_eq(moc_i(1))>>} : Len(l) <= MaxParams}

ErrGiven == DoGiven({NameF}, ErrMatcherLists, {<<moc_return(moc_i(7))>>})

ErrAct == DoAct({NameF, NameG}, {moc_type_i}, ParamLists)

NextErr == ErrInit \/ ErrSetErrfn \/ ErrGiven \/ ErrAct \/ Continue

SpecErr == InitErr /\ [][NextErr]_vars

(* ---------------------------------------------------------------------- *)
(* SpecAny: tests that configure a function of 1 to MOC_AUXMAX parameters *)
(* with the untyped wildcard at every position and call it with values of *)
(* every valid type.                                                      *)
(* ---------------------------------------------------------------------- *)

\* the data of the values passed run from 0 to this number
MaxData == 1

\* the type bytes moc_isvalidtype accepts
ValidTypes ==
    {MOC_TYPES2BYTE(s, p) : s \in MOC_VOID..MOC_FUN, p \in MOC_NOPTR..MOC_CPTR}

AnyValues == {[type |-> t, data |-> d] : t \in ValidTypes, d \in 0..MaxData}

\* a buffer with room for MOC_AUXMAX matchers and MOC_AUXMAX responders
AnySizes == {MOC_AUXMAX * 5 * SizeofMatcher}

\* responders that count the call and return 7; the buffer has no room for
\* two such groups
AnyResponders ==
    <<moc_count(moc_p_l(CounterAddr)), moc_count(moc_p_l(CounterAddr)),
      moc_count(moc_p_l(CounterAddr)), moc_return(moc_i(7))>>

AnyMatcherLists == {[i \in 1..n |-> moc_any] : n \in 1..MOC_AUXMAX}

\* calls of 1 to MOC_AUXMAX parameters: any value at one position, the
\* int 1 at the others
AnyParamLists ==
    UNION {UNION {{[i \in 1..n |-> IF i = p THEN v ELSE moc_i(1)] :
                      v \in AnyValues} : p \in 1..n} : n \in 1..MOC_AUXMAX}

InitAny ==
    /\ \E size \in AnySizes : moc_ctx = moc_init(moc_ctx_static, size)
    /\ heap = HeapZero
    /\ out = NoCall

AnyInit == DoInit(AnySizes)

AnyGiven == DoGiven({NameF}, AnyMatcherLists, {AnyResponders})

AnyAct == DoAct({NameF}, {moc_type_i}, AnyParamLists)

NextAny == AnyInit \/ AnyGiven \/ AnyAct \/ Continue

SpecAny == InitAny /\ [][NextAny]_vars

(* ---------------------------------------------------------------------- *)
(* SpecFail: tests that run out of room in the buffer, declare a return   *)
(* type the responders do not give, and install error functions that      *)
(* return.                                                                *)
(* ---------------------------------------------------------------------- *)

\* buffers with room for MaxNodes - 2 and for MaxNodes - 1 list nodes
FailSizes == {(MaxNodes - 2) * 5 * SizeofListnode,
              (MaxNodes - 1) * 5 * SizeofListnode}

FailHandlers == {"test_errfn", "other_errfn"}

FailMatcherLists ==
    {l \in {<<>>, <<moc_any_i>>, <<moc_eq(moc_i(1))>>,
            <<moc_any_i, moc_any_i>>} : Len(l) <= MaxParams}

FailResponderGroups ==
    {<<moc_return(moc_i(7))>>,
     <<moc_count(moc_p_l(CounterAddr)), moc_return(moc_l(8))>>}

FailReturnTypes == {moc_type_i, moc_type_l}

InitFail ==
    /\ \E size \in FailSizes : moc_ctx = moc_init(moc_ctx_static, size)
    /\ heap = HeapZero
    /\ out = NoCall

FailInit == DoInit(FailSizes)

FailSetErrfn == DoSetErrfn(FailHandlers)

FailGiven == DoGiven({NameF}, FailMatcherLists, FailResponderGroups)

FailAct == DoAct({NameF}, FailReturnTypes, ParamLists)

NextFail == FailInit \/ FailSetErrfn \/ FailGiven \/ FailAct \/ Continue

SpecFail == InitFail /\ [][NextFail]_vars

(* ---------------------------------------------------------------------- *)
(* SpecSize: tests that call moc_init with buffers of many sizes, some of *)
(* them larger than what the 16-bit capacities can count.                 *)
(* ---------------------------------------------------------------------- *)

\* the sizes grow in steps of SizeStep bytes up to MaxSizeSteps steps
MaxSizeSteps == 60

SizeStep == SizeofListnode \div 3

\* to the sizes are added 0 to MaxWraps times WrapSize bytes
MaxWraps == 1

\* the smallest size at which the quotient is a multiple of SizeModulus for
\* the five kinds: SizeModulus times the least common multiple of
\* 5 * SizeofListnode and 5 * SizeofFunction
WrapSize == SizeModulus * 5 * SizeofListnode * 4

InitSizes ==
    {w * WrapSize + k * SizeStep : w \in 0..MaxWraps, k \in 0..MaxSizeSteps}

InitSize ==
    /\ moc_ctx = moc_ctx_static
    /\ heap = HeapZero
    /\ out = NoCall

SizeInit == DoInit(InitSizes)

NextSize == SizeInit \/ Continue

SpecSize == InitSize /\ [][NextSize]_vars

(* ---------------------------------------------------------------------- *)
(* SpecAgain: tests that call moc_init again, with the buffer they used   *)
(* before or with a new one, and configure and call the function anew.    *)
(* ---------------------------------------------------------------------- *)

AgainMatcherLists == {<<>>, <<moc_any_i>>}

AgainParamLists == SeqsUpTo({moc_i(1)}, MaxParams)

InitAgain ==
    /\ \E size \in SmallSizes :
          moc_ctx = moc_init_mem(moc_ctx_static, size, ZeroBuffer(size))
    /\ heap = HeapZero
    /\ out = NoCall

AgainInit == DoInitMem(SmallSizes)

AgainSetErrfn == DoSetErrfn({"test_errfn"})

AgainGiven == DoGiven({NameF}, AgainMatcherLists, ReturnGroups)

AgainAct == DoAct({NameF}, {moc_type_i}, AgainParamLists)

NextAgain ==
    AgainInit \/ AgainSetErrfn \/ AgainGiven \/ AgainAct \/ Continue

SpecAgain == InitAgain /\ [][NextAgain]_vars

(* ---------------------------------------------------------------------- *)
(* SpecMsg: tests whose error functions return, one of them after reading *)
(* the message of the error, and that run into errors of several kinds.   *)
(* ---------------------------------------------------------------------- *)

MsgHandlers == {"test_errfn", "print_errfn"}

MsgMatcherLists == {<<moc_eq(moc_i(1))>>}

InitMsg ==
    /\ \E size \in SmallSizes : moc_ctx = moc_init(moc_ctx_static, size)
    /\ heap = HeapZero
    /\ out = NoCall

MsgInit == DoInit(SmallSizes)

MsgSetErrfn == DoSetErrfn(MsgHandlers)

MsgGiven == DoGiven({NameF}, MsgMatcherLists, {<<moc_return(moc_i(7))>>})

MsgAct == DoAct({NameF, NameG}, FailReturnTypes, ParamLists)

NextMsg == MsgInit \/ MsgSetErrfn \/ MsgGiven \/ MsgAct \/ Continue

SpecMsg == InitMsg /\ [][NextMsg]_vars

(* ---------------------------------------------------------------------- *)
(* SpecNames: tests that mock functions of several names, one name being  *)
(* the beginning of another, each with several numbers of parameters, and *)
(* keep the error function moc_error.                                     *)
(* ---------------------------------------------------------------------- *)

\* the name "ff"
NameFF == <<102, 102>>

Names == {NameF, NameG, NameFF}

NamesMatcherLists == SeqsUpTo({moc_any_i}, MaxParams)

InitNames ==
    /\ \E size \in Sizes : moc_ctx = moc_init(moc_ctx_static, size)
    /\ heap = HeapZero
    /\ out = NoCall

NamesInit == DoInit(Sizes)

NamesGiven ==
    DoGiven(Names, NamesMatcherLists, {<<moc_return(moc_i(7))>>})

NamesAct == DoAct(Names, {moc_type_i}, AgainParamLists)

NextNames == NamesInit \/ NamesGiven \/ NamesAct \/ Continue

SpecNames == InitNames /\ [][NextNames]_vars

(* ---------------------------------------------------------------------- *)
(* SpecValues: the comparison of two values, for every pair of values of  *)
(* valid types.                                                           *)
(* ---------------------------------------------------------------------- *)

\* the values of valid types; the only value of type void is the empty one
EqValues == {v \in AnyValues : v.type = moc_type_void => v = moc_emptyval}

InitValues ==
    /\ moc_ctx = moc_ctx_static
    /\ heap = HeapZero
    /\ out = NoCall

ValuesEq ==
    /\ Idle
    /\ \E val1 \in EqValues, val2 \in EqValues :
          out' = [NoCall EXCEPT
                    !.op = "moc_values_eq",
                    !.args = [val1 |-> val1, val2 |-> val2,
                              eq |-> moc_values_eq(val1, val2)]]
    /\ UNCHANGED <<moc_ctx, heap>>

NextValues == ValuesEq \/ Continue

SpecValues == InitValues /\ [][NextValues]_vars

(* ---------------------------------------------------------------------- *)
(* SpecKinds: a value of every type is built from a raw value and read    *)
(* back with the accessor of its type.                                    *)
(* ---------------------------------------------------------------------- *)

\* raw values of n bytes, the least significant byte first: among them 0,
\* 1, -1 and the least and the greatest value of the signed and of the
\* unsigned integers of n bytes
RawValues(n) ==
    {[i \in 1..n |-> IF i = n THEN hi ELSE lo] :
        lo \in {0, 1, 255}, hi \in {0, 127, 128, 255}}

InitKinds ==
    /\ moc_ctx = moc_ctx_static
    /\ heap = HeapZero
    /\ out = NoCall

KindsGet ==
    /\ Idle
    /\ \E n \in DOMAIN ValueFns :
        \E raw \in IF ValueFns[n].stores = "" THEN {<<>>}
                   ELSE RawValues(SizeofC(ValueFns[n].stores)) :
            LET k == ValueFns[n]
                value == moc_value_of(k, raw)
            IN out' = [NoCall EXCEPT
                         !.op = "moc_get",
                         !.args = [fn |-> k.fn, raw |-> raw,
                                   type |-> value.type,
                                   typefn |-> moc_type_of(k),
                                   got |-> IF k.loads = "" THEN <<>>
                                           ELSE moc_get_of(k, value)]]
    /\ UNCHANGED <<moc_ctx, heap>>

NextKinds == KindsGet \/ Continue

SpecKinds == InitKinds /\ [][NextKinds]_vars

(* ---------------------------------------------------------------------- *)
(* SpecExtra: tests that configure a function with untyped wildcards as   *)
(* ordinary matchers and with extra matchers that compare a parameter,    *)
(* named by its number, with the int 1, with and without type check.      *)
(* ---------------------------------------------------------------------- *)

\* a buffer with room for MaxNodes matchers
ExtraSizes == {MaxNodes * 5 * SizeofMatcher}

ExtraOrdinaryLists ==
    {l \in {<<moc_any>>, <<moc_any, moc_any>>} : Len(l) <= MaxParams}

\* the first or the second parameter is compared with the int 1
ExtraMatchers ==
    {moc_xparam(j, "moc_cmpeq", moc_i(1)) : j \in {1, 2}} \cup
    {moc_xparam_nochk(j, "moc_cmpeq", moc_i(1)) : j \in {1, 2}}

\* no extra matcher, one, or two
ExtraMatcherLists ==
    {<<>>} \cup {<<x>> : x \in ExtraMatchers}
           \cup {<<x, y>> : x \in ExtraMatchers, y \in ExtraMatchers}

InitExtra ==
    /\ \E size \in ExtraSizes : moc_ctx = moc_init(moc_ctx_static, size)
    /\ heap = HeapZero
    /\ out = NoCall

ExtraInit == DoInit(ExtraSizes)

ExtraGiven ==
    DoGivenExtra({NameF}, ExtraOrdinaryLists, ExtraMatcherLists,
                 {<<moc_return(moc_i(7))>>})

ExtraAct == DoAct({NameF}, {moc_type_i}, ParamLists)

NextExtra == ExtraInit \/ ExtraGiven \/ ExtraAct \/ Continue

SpecExtra == InitExtra /\ [][NextExtra]_vars

(* ---------------------------------------------------------------------- *)
(* SpecPlace: tests that pass to moc_given_extra, as ordinary and as      *)
(* extra matchers, matchers built for the other place, install an error   *)
(* function that returns and call the function.                           *)
(* ---------------------------------------------------------------------- *)

\* an ordinary matcher, and matchers built with moc_xparam, moc_xcall and
\* moc_xparam_nochk at the first and at the second ordinary position
PlaceOrdinaryLists ==
    {l \in {<<moc_eq(moc_i(1))>>,
            <<moc_xparam(1, "moc_cmpeq", moc_i(1))>>,
            <<moc_xcall("nparams_is", moc_i(1))>>,
            <<moc_eq(moc_i(1)), moc_xparam_nochk(1, "moc_cmpeq", moc_i(1))>>}
        : Len(l) <= MaxParams}

\* matchers built for the extra places, and matchers built with moc_eq
\* and moc_any at the first extra place
PlaceExtraLists ==
    {<<moc_xparam(1, "moc_cmpeq", moc_i(1))>>,
     <<moc_xcall("nparams_is", moc_i(1))>>,
     <<moc_eq(moc_i(1))>>, <<moc_any>>}

PlaceParamLists == SeqsUpTo({moc_i(1), moc_i(2)}, MaxParams)

InitPlace ==
    /\ \E size \in ExtraSizes : moc_ctx = moc_init(moc_ctx_static, size)
    /\ heap = HeapZero
    /\ out = NoCall

PlaceSetErrfn == DoSetErrfn({"test_errfn"})

\* moc_given_extra without extra matchers, and with one after moc_eq(2)
PlaceGiven ==
    \/ DoGivenExtra({NameF}, PlaceOrdinaryLists, {<<>>}, {<<moc_return(moc_i(7))>>})
    \/ DoGivenExtra({NameF}, {<<moc_eq(moc_i(2))>>}, PlaceExtraLists, {<<moc_return(moc_i(7))>>})

PlaceAct == DoAct({NameF}, {moc_type_i}, PlaceParamLists)

NextPlace == PlaceSetErrfn \/ PlaceGiven \/ PlaceAct \/ Continue

SpecPlace == InitPlace /\ [][NextPlace]_vars

(* ---------------------------------------------------------------------- *)
(* SpecRef: tests that configure functions of one and of two parameters   *)
(* with extra matchers and responders that name the second parameter or   *)
(* were built with a number that is not one of a parameter, install an    *)
(* error function that returns and call the functions.                    *)
(* ---------------------------------------------------------------------- *)

\* a buffer with room for MaxNodes - 1 matchers
RefSizes == {(MaxNodes - 1) * 5 * SizeofMatcher}

RefOrdinaryLists ==
    {l \in {<<moc_any>>, <<moc_any, moc_any>>} : Len(l) <= MaxParams}

\* matchers that compare the second parameter with the int 1, with and
\* without type check, one built with the number 0, and one on the call
RefExtraLists ==
    {<<moc_xparam(2, "moc_cmpeq", moc_i(1))>>,
     <<moc_xparam_nochk(2, "moc_cmpeq", moc_i(1))>>,
     <<moc_xparam(0, "moc_cmpeq", moc_i(1))>>,
     <<moc_xcall("nparams_is", moc_i(1))>>}

\* responders that give back the second parameter, with and without type
\* check, and one built with the number MOC_MAXPARAMS after moc_return
RefResponderGroups ==
    {<<moc_rparam(2, "echo_param", moc_i(0))>>,
     <<moc_rparam_nochk(2, "echo_param", moc_i(0))>>,
     <<moc_return(moc_i(7)), moc_rparam(MOC_MAXPARAMS, "echo_param", moc_i(0))>>}

RefParamLists == SeqsUpTo({moc_i(1)}, MaxParams)

InitRef ==
    /\ \E size \in RefSizes : moc_ctx = moc_init(moc_ctx_static, size)
    /\ heap = HeapZero
    /\ out = NoCall

RefSetErrfn == DoSetErrfn({"test_errfn"})

\* moc_given_extra with an extra matcher and moc_return, and without extra
\* matchers
RefGiven ==
    \/ DoGivenExtra({NameF}, RefOrdinaryLists, RefExtraLists, {<<moc_return(moc_i(7))>>})
    \/ DoGivenExtra({NameF}, RefOrdinaryLists, {<<>>}, RefResponderGroups)

RefAct == DoAct({NameF}, {moc_type_i}, RefParamLists)

NextRef == RefSetErrfn \/ RefGiven \/ RefAct \/ Continue

SpecRef == InitRef /\ [][NextRef]_vars

(* ---------------------------------------------------------------------- *)
(* SpecFun: tests that configure a function of one parameter with one of  *)
(* the six comparisons with the address of a function, install an error   *)
(* function that returns and call the function with the address of a      *)
(* function or with an int.                                               *)
(* ---------------------------------------------------------------------- *)

\* the addresses of two functions of the test
FunAddresses == {"fun_a", "fun_b"}

FunMatcherLists ==
    {<<moc_eq(moc_fn("fun_a"))>>, <<moc_ne(moc_fn("fun_a"))>>,
     <<moc_lt(moc_fn("fun_a"))>>, <<moc_le(moc_fn("fun_a"))>>,
     <<moc_gt(moc_fn("fun_a"))>>, <<moc_ge(moc_fn("fun_a"))>>}

FunParamLists == {<<moc_fn(a)>> : a \in FunAddresses} \cup {<<moc_i(1)>>}

InitFun ==
    /\ \E size \in RefSizes : moc_ctx = moc_init(moc_ctx_static, size)
    /\ heap = HeapZero
    /\ out = NoCall

FunSetErrfn == DoSetErrfn({"test_errfn"})

FunGiven == DoGiven({NameF}, FunMatcherLists, {<<moc_return(moc_i(7))>>})

FunAct == DoAct({NameF}, {moc_type_i}, FunParamLists)

NextFun == FunSetErrfn \/ FunGiven \/ FunAct \/ Continue

SpecFun == InitFun /\ [][NextFun]_vars

(* ---------------------------------------------------------------------- *)
(* SpecType: tests that pass to moc_given_extra matchers and responders   *)
(* whose values have a type byte that no constructor writes: a kind       *)
(* after MOC_FUN, or an indirection after MOC_CPTR.  The buffer has room  *)
(* for two mappings, and the error function returns.                      *)
(* ---------------------------------------------------------------------- *)

BadKindValue == [type |-> MOC_TYPES2BYTE(MOC_FUN + 1, MOC_NOPTR), data |-> 3]

BadIndirectionValue == [type |-> MOC_TYPES2BYTE(MOC_INT, MOC_CPTR + 1), data |-> 3]

TypeOrdinaryLists ==
    {<<moc_eq(moc_i(1))>>, <<moc_eq(moc_i(2))>>, <<moc_eq(BadKindValue)>>}

TypeExtraLists ==
    {<<>>, <<moc_xparam(1, "moc_cmpeq", moc_i(1))>>,
     <<moc_xparam(1, "moc_cmpeq", BadIndirectionValue)>>}

TypeResponderGroups ==
    {<<moc_return(moc_i(7))>>, <<moc_return(BadIndirectionValue)>>,
     <<moc_return(moc_i(7)), moc_return(BadKindValue)>>}

InitType ==
    /\ \E size \in RefSizes : moc_ctx = moc_init(moc_ctx_static, size)
    /\ heap = HeapZero
    /\ out = NoCall

TypeSetErrfn == DoSetErrfn({"test_errfn"})

TypeGiven == DoGivenExtra({NameF}, TypeOrdinaryLists, TypeExtraLists, TypeResponderGroups)

NextType == TypeSetErrfn \/ TypeGiven \/ Continue

SpecType == InitType /\ [][NextType]_vars

(* ---------------------------------------------------------------------- *)
(* SpecCount: tests that configure the function "f" with a counter of     *)
(* calls before the value to return, as the example of the README does,   *)
(* and other mappings and the function "g" without the counter, and that  *)
(* read the counter after several calls without setting it again.         *)
(* ---------------------------------------------------------------------- *)

\* the counter and the int 7, and the int 8 alone
CountResponderGroups ==
    {<<moc_count(moc_p_l(CounterAddr)), moc_return(moc_i(7))>>,
     <<moc_return(moc_i(8))>>}

CountParamLists == {<<moc_i(1)>>, <<moc_i(2)>>}

InitCount ==
    /\ \E size \in Sizes : moc_ctx = moc_init(moc_ctx_static, size)
    /\ heap = HeapZero
    /\ out = NoCall

CountSetErrfn == DoSetErrfn({"test_errfn"})

\* the first parameter of "f" equal to 1 with either group of responders,
\* and equal to 2, or the function "g", with the int 8
CountGiven ==
    \/ DoGiven({NameF}, {<<moc_eq(moc_i(1))>>}, CountResponderGroups)
    \/ DoGiven({NameF, NameG}, {<<moc_eq(moc_i(2))>>}, {<<moc_return(moc_i(8))>>})

\* the test makes up to MaxCycles + 1 calls that count
CountAct ==
    /\ heap[CounterAddr] <= MaxCycles
    /\ DoAct({NameF, NameG}, {moc_type_i}, CountParamLists)

\* the test goes on after a call that returned, and leaves the counter
CountContinue ==
    /\ ~Idle
    /\ ~out.exited
    /\ out' = NoCall
    /\ UNCHANGED <<moc_ctx, heap>>

NextCount == CountSetErrfn \/ CountGiven \/ CountAct \/ CountContinue

SpecCount == InitCount /\ [][NextCount]_vars

(* ---------------------------------------------------------------------- *)
(* SpecGroup: tests that configure a function of one parameter with       *)
(* groups of responders that count the call and then give back the int 7  *)
(* or the parameter, the latter through a responder that names the second *)
(* parameter or expects a long; the error function returns.               *)
(* ---------------------------------------------------------------------- *)

GroupMatcherLists == {<<moc_eq(moc_i(1))>>, <<moc_any>>}

\* the counter, and then: the int 7; the second parameter; the first
\* parameter, which has to be a long
GroupResponderGroups ==
    {<<moc_count(moc_p_l(CounterAddr)), moc_return(moc_i(7))>>,
     <<moc_count(moc_p_l(CounterAddr)), moc_rparam(2, "echo_param", moc_i(0))>>,
     <<moc_count(moc_p_l(CounterAddr)), moc_rparam(1, "echo_param", moc_l(0))>>}

GroupParamLists == {<<moc_i(1)>>, <<moc_i(2)>>}

InitGroup ==
    /\ \E size \in ExtraSizes : moc_ctx = moc_init(moc_ctx_static, size)
    /\ heap = HeapZero
    /\ out = NoCall

GroupSetErrfn == DoSetErrfn({"test_errfn"})

GroupGiven == DoGiven({NameF}, GroupMatcherLists, GroupResponderGroups)

GroupAct == DoAct({NameF}, {moc_type_i}, GroupParamLists)

NextGroup == GroupSetErrfn \/ GroupGiven \/ GroupAct \/ Continue

SpecGroup == InitGroup /\ [][NextGroup]_vars

(* ---------------------------------------------------------------------- *)
(* SpecFault: tests that configure a function of two parameters with      *)
(* mappings whose second or third matcher is not valid for the calls      *)
(* made, behind a first matcher that refuses some of the calls, and with  *)
(* a mapping of wildcards; the error function returns.                    *)
(* ---------------------------------------------------------------------- *)

\* a buffer with room for MaxNodes + 2 matchers
FaultSizes == {(MaxNodes + 2) * 5 * SizeofMatcher}

\* behind moc_eq(1): a matcher built for the extra places, an ordering
\* comparison with the address of a function, a comparison with a long;
\* and two wildcards
FaultOrdinaryLists ==
    {l \in {<<moc_eq(moc_i(1)), moc_xparam_nochk(1, "moc_cmpeq", moc_i(1))>>,
            <<moc_eq(moc_i(1)), moc_lt(moc_fn("fun_a"))>>,
            <<moc_eq(moc_i(1)), moc_eq(moc_l(1))>>,
            <<moc_any, moc_any>>} : Len(l) <= MaxParams}

\* behind moc_eq(1) and a wildcard: an extra matcher that names a third
\* parameter
FaultExtraLists == {<<moc_xparam(3, "moc_cmpeq", moc_i(1))>>}

FaultParamLists == {<<moc_i(1), moc_i(1)>>, <<moc_i(2), moc_i(1)>>}

InitFault ==
    /\ \E size \in FaultSizes : moc_ctx = moc_init(moc_ctx_static, size)
    /\ heap = HeapZero
    /\ out = NoCall

FaultSetErrfn == DoSetErrfn({"test_errfn"})

FaultGiven ==
    \/ DoGivenExtra({NameF}, FaultOrdinaryLists, {<<>>}, {<<moc_return(moc_i(7))>>})
    \/ DoGivenExtra({NameF}, {<<moc_eq(moc_i(1)), moc_any>>}, FaultExtraLists, {<<moc_return(moc_i(7))>>})

FaultAct == DoAct({NameF}, {moc_type_i}, FaultParamLists)

NextFault == FaultSetErrfn \/ FaultGiven \/ FaultAct \/ Continue

SpecFault == InitFault /\ [][NextFault]_vars

(* ---------------------------------------------------------------------- *)
(* SpecStale: a program of several tests, each starting with moc_init on  *)
(* the same buffer, that configure a function of two parameters with       *)
(* moc_given and a function of one parameter and one extra matcher with    *)
(* moc_given_extra, and call the latter; the handler is the default one.   *)
(* ---------------------------------------------------------------------- *)

StaleOrdinaryLists ==
    {<<moc_any, moc_xparam(1, "moc_cmpeq", moc_i(1))>>,
     <<moc_any, moc_eq(moc_i(9))>>}

StaleShortLists == {<<moc_eq(moc_i(1))>>, <<moc_eq(moc_i(2))>>}

StaleExtraLists == {<<moc_xparam(1, "moc_cmpeq", moc_i(1))>>}

StaleResponderGroups == {<<moc_return(moc_i(7))>>, <<moc_return(moc_i(8))>>}

InitStale ==
    /\ \E size \in ExtraSizes : moc_ctx = moc_init(moc_ctx_static, size)
    /\ heap = HeapZero
    /\ out = NoCall

StaleInit == DoInit(ExtraSizes)

StaleGiven == DoGiven({NameF}, StaleOrdinaryLists, {<<moc_return(moc_i(7))>>})

StaleGivenExtra == DoGivenExtra({NameF}, StaleShortLists, StaleExtraLists, StaleResponderGroups)

StaleAct == DoAct({NameF}, {moc_type_i}, {<<moc_i(1)>>})

NextStale == StaleInit \/ StaleGiven \/ StaleGivenExtra \/ StaleAct \/ Continue

SpecStale == InitStale /\ [][NextStale]_vars

(* ---------------------------------------------------------------------- *)
(* SpecWalk: the calls of moc_given_extra and moc_act taken in steps, one *)
(* step for each turn of the loop over the function entries and of the     *)
(* loop over the nodes of the list of mappings.  out holds, besides the    *)
(* call, the place the call has reached: pc is "function", "mapping",      *)
(* "found" or "done", f the counter of the first loop, mnode the node of   *)
(* the second.  The registry is written in the last step of a call, by     *)
(* the code behind the loops.  A call that has begun goes on: the library  *)
(* runs in the thread of the test.                                         *)
(* The buffer of the test is a static array of zeros, and the test has    *)
(* installed an error function that returns.                               *)
(* ---------------------------------------------------------------------- *)

WalkOrdinaryLists ==
    {<<moc_eq(moc_i(1))>>, <<moc_eq(moc_i(2))>>, <<moc_any, moc_any>>}

WalkParamLists == {<<moc_i(2)>>, <<moc_l(1)>>}

WalkSizes == {(MaxNodes - 1) * 5 * SizeofMatcher}

\* a variant that stays on the node
NextNode_same(ctx, mnode) == mnode

\* "mnode = mnode->next"
NextNode(ctx, mnode) == ctx.lnods[mnode].next

WalkCalls == {"moc_given_extra", "moc_act"}

InCall == out.op \in WalkCalls /\ out.pc # "done"

Completed == out.op \in WalkCalls /\ out.pc = "done"

WalkArity ==
    IF out.op = "moc_act" THEN Len(out.args.vals) ELSE Len(out.args.mtcs)

\* the test has called moc_init with a buffer of zeros and moc_set_errfn
\* with an error function that returns
InitWalk ==
    /\ \E size \in WalkSizes :
          moc_ctx = moc_set_errfn(moc_init_mem(moc_ctx_static, size,
                                               ZeroBuffer(size)),
                                  "test_errfn")
    /\ heap = HeapZero
    /\ out = NoCall

\* moc_init with another buffer of zeros
WalkInit ==
    /\ Idle
    /\ \E size \in WalkSizes :
        /\ moc_ctx' = moc_init_mem(moc_ctx, size, ZeroBuffer(size))
        /\ out' = [NoCall EXCEPT !.op = "moc_init", !.args = size]
        /\ UNCHANGED heap

WalkSetErrfn == DoSetErrfn({"test_errfn"})

\* the test calls moc_given_extra or moc_act: "nf = moc_ctx.nfuncs" and
\* "f = 0"
WalkBegin ==
    /\ Idle
    /\ \/ \E mtcs \in WalkOrdinaryLists :
            out' = [op |-> "moc_given_extra", funcname |-> NameF,
                    args |-> [mtcs |-> mtcs, xmtcs |-> <<>>,
                              rsps |-> <<moc_return(moc_i(7))>>],
                    retval |-> moc_emptyval, handled |-> <<>>,
                    exited |-> FALSE, sel |-> 0, grp |-> 0, ran |-> <<>>,
                    pc |-> "function", f |-> 0, mnode |-> MOC_NULLNODE]
       \/ \E vals \in WalkParamLists :
            out' = [op |-> "moc_act", funcname |-> NameF,
                    args |-> [rettype |-> moc_type_i, vals |-> vals],
                    retval |-> moc_emptyval, handled |-> <<>>,
                    exited |-> FALSE, sel |-> 0, grp |-> 0, ran |-> <<>>,
                    pc |-> "function", f |-> 0, mnode |-> MOC_NULLNODE]
    /\ UNCHANGED <<moc_ctx, heap>>

\* one turn of "for (f = 0; f < nf; f++)", or its end: f is an unsigned
\* short
WalkFunction ==
    /\ InCall
    /\ out.pc = "function"
    /\ IF /\ out.f < moc_ctx.nfuncs
          /\ ~(/\ moc_ctx.funcs[out.f + 1].nparams = WalkArity
               /\ moc_strcmp(moc_ctx.funcs[out.f + 1].name, out.funcname) = 0)
       THEN out' = [out EXCEPT !.f = (@ + 1) % SizeModulus]
       ELSE out' = [out EXCEPT
                       !.pc = "mapping",
                       !.mnode = IF out.f < moc_ctx.nfuncs
                                 THEN moc_ctx.funcs[out.f + 1].lmaps.first
                                 ELSE MOC_NULLNODE]
    /\ UNCHANGED <<moc_ctx, heap>>

\* the mapping of the node mnode ends the loop "while (mnode !=
\* MOC_NULLNODE)": in moc_given_nnn it has an equal matcher, in moc_act_n
\* all its matchers match or one of them is not valid
EndsWalk(mnode) ==
    LET map == moc_ctx.maps[moc_ctx.lnods[mnode].item]
    IN IF out.op = "moc_act"
       THEN MatchMapping(Env, map, 0, out.funcname, WalkArity,
                         out.args.vals).res \in {"error", "true"}
       ELSE LET c == moc_match_n(moc_ctx, out.args.mtcs)
                total == Len(out.args.mtcs) + Len(out.args.xmtcs)
            IN /\ Len(out.args.xmtcs) = map.nxmatchers
               /\ FirstEqualMatcher(c, map, c.auxmatcs, 0, total) < total

\* one turn of "while (mnode != MOC_NULLNODE)"
WalkMapping ==
    /\ InCall
    /\ out.pc = "mapping"
    /\ out.mnode # MOC_NULLNODE
    /\ IF EndsWalk(out.mnode)
       THEN out' = [out EXCEPT !.pc = "found"]
       ELSE out' = [out EXCEPT !.mnode = NextNode(moc_ctx, out.mnode)]
    /\ UNCHANGED <<moc_ctx, heap>>

\* the code behind the loops: the call reports an error or writes the
\* registry, runs the responders, and returns
WalkEnd ==
    /\ InCall
    /\ \/ out.pc = "found"
       \/ out.pc = "mapping" /\ out.mnode = MOC_NULLNODE
    /\ IF out.op = "moc_act"
       THEN \E r \in {moc_act(Env, out.funcname, out.args.rettype,
                              out.args.vals)} :
               /\ out' = [out EXCEPT
                            !.retval = IF r.E.exited THEN moc_emptyval
                                       ELSE r.retval,
                            !.handled = r.E.handled, !.exited = r.E.exited,
                            !.sel = r.sel, !.grp = r.grp, !.ran = r.ran,
                            !.pc = "done"]
               /\ heap' = r.E.heap
               /\ moc_ctx' = r.E.ctx
       ELSE \E E \in {moc_given_extra(Env, out.funcname, out.args.mtcs,
                                      out.args.xmtcs, out.args.rsps)} :
               /\ out' = [out EXCEPT !.handled = E.handled,
                                     !.exited = E.exited, !.pc = "done"]
               /\ heap' = E.heap
               /\ moc_ctx' = E.ctx

\* the test goes on after a call that returned
WalkContinue ==
    /\ ~Idle
    /\ ~InCall
    /\ ~out.exited
    /\ out' = NoCall
    /\ heap' = HeapZero
    /\ UNCHANGED moc_ctx

NextWalk ==
    \/ WalkInit
    \/ WalkSetErrfn
    \/ WalkBegin
    \/ WalkFunction
    \/ WalkMapping
    \/ WalkEnd
    \/ WalkContinue

\* the place the call in progress has reached
WalkPlace ==
    IF out.op \in WalkCalls THEN <<out.pc, out.f, out.mnode>> ELSE <<>>

SpecWalk ==
    /\ InitWalk
    /\ [][NextWalk]_vars
    /\ WF_WalkPlace(WalkFunction \/ WalkMapping \/ WalkEnd)

(* ---------------------------------------------------------------------- *)
(* What the properties speak of: the registry as the lists show it.       *)
(* ---------------------------------------------------------------------- *)

Range(s) == {s[i] : i \in DOMAIN s}

RECURSIVE ListNodes(_, _)
\* the nodes of a list from node on, in list order
ListNodes(lnods, node) ==
    IF node = MOC_NULLNODE
    THEN <<>>
    ELSE <<node>> \o ListNodes(lnods, lnods[node].next)

\* the slots of the mappings of the function entry f, in list order
MappingsOf(ctx, f) ==
    LET nodes == ListNodes(ctx.lnods, ctx.funcs[f].lmaps.first)
    IN [i \in DOMAIN nodes |-> ctx.lnods[nodes[i]].item]

\* the responder groups of a mapping, in list order: each group is the
\* sequence of the slots of its responders
GroupsOf(ctx, mapidx) ==
    LET nodes == ListNodes(ctx.lnods, ctx.maps[mapidx].lresps.first)
    IN [i \in DOMAIN nodes |->
          [r \in 1..ctx.lnods[nodes[i]].nitems |->
              ctx.lnods[nodes[i]].item + r - 1]]

\* every matcher of the mapping is valid for the call and accepts it
Passes(ctx, mapidx, funcname, params) ==
    \A m \in 0..(Len(params) + ctx.maps[mapidx].nxmatchers - 1) :
        MatchOne([ctx |-> ctx, heap |-> HeapZero, handled |-> <<>>,
                  exited |-> FALSE],
                 ctx.matcs[ctx.maps[mapidx].matchers + m], m, funcname,
                 Len(params), params).res = "true"

\* the mappings of the entry the last dispatch looked up that pass on its
\* parameters (dispatch changes neither the mapping lists nor the matchers)
PassingOfLastAct ==
    LET f == FindFunction(moc_ctx, 1, out.funcname, Len(out.args.vals))
    IN IF f > moc_ctx.nfuncs
       THEN {}
       ELSE {i \in Range(MappingsOf(moc_ctx, f)) :
                Passes(moc_ctx, i, out.funcname, out.args.vals)}

(* ---------------------------------------------------------------------- *)
(* Properties.                                                            *)
(* ---------------------------------------------------------------------- *)

\* C1: a dispatch takes the responders of the first mapping, in the order
\* the mappings were configured (mapping slots are handed out in that
\* order), whose matchers all pass; every responder it runs belongs to
\* that mapping, whatever later mappings would pass too.
C1_FirstPassingMapping ==
    out.op = "moc_act" =>
        /\ out.sel # 0 =>
              /\ out.sel \in PassingOfLastAct
              /\ \A i \in PassingOfLastAct : out.sel <= i
              /\ Range(out.ran) \subseteq
                    UNION {Range(g) : g \in Range(GroupsOf(moc_ctx, out.sel))}
        /\ (out.sel = 0 /\ PassingOfLastAct # {}) => out.handled # <<>>
        /\ out.sel = 0 => out.ran = <<>>

\* C1 witness: a dispatch ran the responders of a mapping while a mapping
\* configured later passes on the same parameters
C1_Witness ==
    /\ out.op = "moc_act"
    /\ out.sel # 0
    /\ out.ran # <<>>
    /\ \E i \in PassingOfLastAct : i > out.sel

\* the matchers of a mapping of a function with nparams parameters
MatchersOf(ctx, mapidx, nparams) ==
    [m \in 1..(nparams + ctx.maps[mapidx].nxmatchers) |->
        ctx.matcs[ctx.maps[mapidx].matchers + m - 1]]

\* the result of a list of matchers on a call: "error" if one of them is
\* not valid for the call, else "true" or "false"
ListResult(mtcs, funcname, params) ==
    LET res == [m \in DOMAIN mtcs |->
                   MatchOne([ctx |-> moc_ctx, heap |-> HeapZero,
                             handled |-> <<>>, exited |-> FALSE],
                            mtcs[m], m - 1, funcname, Len(params),
                            params).res]
    IN IF \E m \in DOMAIN mtcs : res[m] = "error" THEN "error"
       ELSE IF \A m \in DOMAIN mtcs : res[m] = "true" THEN "true"
       ELSE "false"

\* two lists of matchers of one length differ in at least one position
DifferSomewhere(l1, l2) == \E m \in DOMAIN l1 : l1[m] # l2[m]

\* the mapping holds one group, made of one moc_return
SingleReturn(ctx, mapidx) ==
    LET groups == GroupsOf(ctx, mapidx)
    IN /\ Len(groups) = 1
       /\ Len(groups[1]) = 1
       /\ ctx.resps[groups[1][1]].rspfn = "moc_rsprt"

\* the configurations [mtcs, v] an entry stands for when each of its
\* mappings holds one group made of one moc_return
ConfiguredReturns(ctx, f, nparams) ==
    LET maps == MappingsOf(ctx, f)
    IN [i \in DOMAIN maps |->
          [mtcs |-> MatchersOf(ctx, maps[i], nparams),
           v |-> ctx.resps[GroupsOf(ctx, maps[i])[1][1]].rval]]

\* C2: when the configurations given so far for a function pairwise differ
\* in at least one matcher and each gave one moc_return (so each mapping
\* of the entry stands for one of them), one more such configuration
\* leaves a registry in which every dispatch whose matchers raise no error
\* returns the value of the first configuration, in the order given, whose
\* matchers all pass, and returns it again when the call is repeated.
C2_FirstConfigurationAnswers ==
    [][(out'.op = "moc_given" /\ out'.handled = <<>>) =>
        LET funcname == out'.funcname
            mtcs == out'.args.mtcs
            rsps == out'.args.rsps
            n == Len(mtcs)
            f == FindFunction(moc_ctx, 1, funcname, n)
            old == IF f > moc_ctx.nfuncs THEN <<>>
                   ELSE ConfiguredReturns(moc_ctx, f, n)
            cfgs == Append(old, [mtcs |-> mtcs, v |-> rsps[1].rval])
            passing(p) == {i \in DOMAIN cfgs :
                             ListResult(cfgs[i].mtcs, funcname, p) = "true"}
            first(p) == CHOOSE i \in passing(p) : \A j \in passing(p) : i <= j
            act(ctx, p) == moc_act([ctx |-> ctx, heap |-> HeapZero,
                                    handled |-> <<>>, exited |-> FALSE],
                                   funcname, cfgs[first(p)].v.type, p)
        IN (/\ Len(rsps) = 1
            /\ rsps[1].rspfn = "moc_rsprt"
            /\ f <= moc_ctx.nfuncs =>
                  \A i \in Range(MappingsOf(moc_ctx, f)) :
                      SingleReturn(moc_ctx, i)
            /\ \A i, j \in DOMAIN cfgs :
                  i # j => DifferSomewhere(cfgs[i].mtcs, cfgs[j].mtcs))
           => \A p \in [1..n -> ParamValues] :
                 (/\ \A i \in DOMAIN cfgs :
                        ListResult(cfgs[i].mtcs, funcname, p) # "error"
                  /\ passing(p) # {})
                 => LET r1 == act(moc_ctx', p)
                        r2 == act(r1.E.ctx, p)
                    IN /\ r1.E.handled = <<>>
                       /\ r1.retval = cfgs[first(p)].v
                       /\ r2.E.handled = <<>>
                       /\ r2.retval = cfgs[first(p)].v]_vars

\* the list nodes of the responder groups of a mapping, in list order
GroupNodesOf(ctx, mapidx) == ListNodes(ctx.lnods, ctx.maps[mapidx].lresps.first)

\* a dispatch from the registry ctx by a test that declares the return
\* type the responders taken will give
ActFrom(ctx, funcname, params) ==
    LET E == [ctx |-> ctx, heap |-> HeapZero, handled |-> <<>>,
              exited |-> FALSE]
    IN moc_act(E, funcname,
               moc_act(E, funcname, moc_type_void, params).retval.type,
               params)

RECURSIVE ActsInARow(_, _, _, _)
\* the results of k consecutive dispatches of one call
ActsInARow(ctx, funcname, params, k) ==
    IF k = 0
    THEN <<>>
    ELSE LET r == ActFrom(ctx, funcname, params)
         IN <<r>> \o ActsInARow(r.E.ctx, funcname, params, k - 1)

\* C3: when a mapping holds N > 1 groups of responders, in list order
\* g_1..g_N (the order of their configuration when no dispatch came between
\* two of them), the k-th of consecutive dispatches that select the
\* mapping runs the responders of group ((k-1) mod N)+1 and no others, for
\* every k up to the first dispatch after MaxCycles full turns.
C3_GroupsTakeTurns ==
    Idle =>
        \A f \in 1..moc_ctx.nfuncs :
            \A mapidx \in Range(MappingsOf(moc_ctx, f)) :
                LET g == GroupNodesOf(moc_ctx, mapidx)
                    N == Len(g)
                    funcname == moc_ctx.funcs[f].name
                IN N > 1 =>
                    \A p \in [1..moc_ctx.funcs[f].nparams -> ParamValues] :
                        ActFrom(moc_ctx, funcname, p).sel = mapidx =>
                            LET acts == ActsInARow(moc_ctx, funcname, p,
                                                   MaxCycles * N + 1)
                            IN \A k \in DOMAIN acts :
                                LET gk == g[((k - 1) % N) + 1]
                                IN /\ acts[k].sel = mapidx
                                   /\ acts[k].grp = gk
                                   /\ acts[k].E.handled = <<>>
                                   /\ acts[k].ran =
                                        [r \in 1..moc_ctx.lnods[gk].nitems |->
                                            moc_ctx.lnods[gk].item + r - 1]

\* C3 witness: a dispatch has just run the last of N > 1 groups, and the
\* groups stand again in the order of their list nodes, the order in which
\* they were configured
C3_Witness ==
    /\ out.op = "moc_act"
    /\ out.sel # 0
    /\ out.ran # <<>>
    /\ LET g == GroupNodesOf(moc_ctx, out.sel)
       IN /\ Len(g) > 1
          /\ \A i, j \in DOMAIN g : i < j => g[i] < g[j]
          /\ out.grp = g[Len(g)]

\* the registry: the five regions and their counts
Registry(ctx) ==
    [funcs |-> ctx.funcs, maps |-> ctx.maps, matcs |-> ctx.matcs,
     resps |-> ctx.resps, lnods |-> ctx.lnods, nfuncs |-> ctx.nfuncs,
     nmaps |-> ctx.nmaps, nmatcs |-> ctx.nmatcs, nresps |-> ctx.nresps,
     nlnods |-> ctx.nlnods]

RECURSIVE Repeated(_, _, _, _, _)
\* the results of k repetitions of one call, return type included
Repeated(ctx, funcname, rettype, params, k) ==
    IF k = 0
    THEN <<>>
    ELSE LET r == moc_act([ctx |-> ctx, heap |-> HeapZero, handled |-> <<>>,
                           exited |-> FALSE], funcname, rettype, params)
         IN <<r>> \o Repeated(r.E.ctx, funcname, rettype, params, k - 1)

\* C4: a dispatch that selects a mapping holding a single group of
\* responders leaves the registry as it was, and each of MaxCycles
\* repetitions of the call selects the same mapping, returns what the first
\* call returned and leaves the registry as it was.
C4_SingleGroupIsStable ==
    [][(/\ out'.op = "moc_act"
        /\ out'.sel # 0
        /\ Len(GroupNodesOf(moc_ctx, out'.sel)) = 1)
       => /\ Registry(moc_ctx') = Registry(moc_ctx)
          /\ out'.handled = <<>> =>
                LET acts == Repeated(moc_ctx', out'.funcname,
                                     out'.args.rettype, out'.args.vals,
                                     MaxCycles)
                IN \A k \in DOMAIN acts :
                      /\ acts[k].sel = out'.sel
                      /\ acts[k].retval = out'.retval
                      /\ acts[k].E.handled = <<>>
                      /\ Registry(acts[k].E.ctx) = Registry(moc_ctx)]_vars

\* C4 witness: a dispatch has run the responders of a mapping that holds a
\* single group and has returned their value to the caller
C4_Witness ==
    /\ out.op = "moc_act"
    /\ out.sel # 0
    /\ Len(GroupNodesOf(moc_ctx, out.sel)) = 1
    /\ out.ran # <<>>
    /\ out.handled = <<>>
    /\ out.retval # moc_emptyval

\* the groups of responders of a mapping, in list order, as the responders
\* themselves
GroupContentsOf(ctx, mapidx) ==
    LET groups == GroupsOf(ctx, mapidx)
    IN [i \in DOMAIN groups |->
          [r \in DOMAIN groups[i] |-> ctx.resps[groups[i][r]]]]

\* the mappings of the entry f whose count of extra matchers and whose
\* matchers are those of a configuration
SameMatchers(ctx, f, mtcs, xmtcs) ==
    {i \in Range(MappingsOf(ctx, f)) :
        /\ ctx.maps[i].nxmatchers = Len(xmtcs)
        /\ MatchersOf(ctx, i, ctx.funcs[f].nparams) = mtcs \o xmtcs}

\* C5: a configuration whose count of extra matchers and whose matchers
\* are those of a mapping the entry already holds adds its responders as
\* the last group of such a mapping and creates no mapping, whatever the
\* number of parameters and whatever the matchers.
C5_SameMatchersAppendGroup ==
    [][(out'.op = "moc_given" /\ out'.handled = <<>>) =>
        LET mtcs == out'.args.mtcs
            xmtcs == out'.args.xmtcs
            f == FindFunction(moc_ctx, 1, out'.funcname, Len(mtcs))
        IN (f <= moc_ctx.nfuncs /\ SameMatchers(moc_ctx, f, mtcs, xmtcs) # {})
           => /\ moc_ctx'.nmaps = moc_ctx.nmaps
              /\ MappingsOf(moc_ctx', f) = MappingsOf(moc_ctx, f)
              /\ \E i \in SameMatchers(moc_ctx, f, mtcs, xmtcs) :
                    GroupContentsOf(moc_ctx', i) =
                        Append(GroupContentsOf(moc_ctx, i), out'.args.rsps)]_vars

\* C6: a configuration for an entry that exists, whose matchers differ from
\* those of every mapping of the entry in the count of extra matchers or
\* in at least one matcher, creates a mapping at the end of the entry's
\* list that holds copies of the matchers and the new responders as its
\* only group, and adds no group to any other mapping.
C6_OtherMatchersNewMapping ==
    [][(out'.op = "moc_given" /\ out'.handled = <<>>) =>
        LET mtcs == out'.args.mtcs
            xmtcs == out'.args.xmtcs
            f == FindFunction(moc_ctx, 1, out'.funcname, Len(mtcs))
            new == moc_ctx.nmaps + 1
        IN (f <= moc_ctx.nfuncs /\ SameMatchers(moc_ctx, f, mtcs, xmtcs) = {})
           => /\ moc_ctx'.nmaps = new
              /\ MappingsOf(moc_ctx', f) = Append(MappingsOf(moc_ctx, f), new)
              /\ MatchersOf(moc_ctx', new, Len(mtcs)) = mtcs \o xmtcs
              /\ GroupContentsOf(moc_ctx', new) = <<out'.args.rsps>>
              /\ \A i \in Range(MappingsOf(moc_ctx, f)) :
                    GroupContentsOf(moc_ctx', i) = GroupContentsOf(moc_ctx, i)]_vars

\* what the two predefined responder functions give back: moc_return its
\* stored value, moc_count the void value
ValueGiven(pr) == IF pr.rspfn = "moc_rsprt" THEN pr.rval ELSE moc_emptyval

\* C7: a dispatch that ends without an error has called the responders of
\* the first group of the selected mapping, each once and in the order of
\* their slots (so the counter of the test has grown by the number of
\* moc_count responders of the group), and returns what the last of them
\* gave.
C7_RespondersInOrder ==
    [][(out'.op = "moc_act" /\ out'.sel # 0 /\ out'.handled = <<>>) =>
        LET rnode == moc_ctx.maps[out'.sel].lresps.first
            first == moc_ctx.lnods[rnode].item
            n == moc_ctx.lnods[rnode].nitems
            counts == {r \in 1..n :
                          moc_ctx.resps[first + r - 1].rspfn = "moc_rspinc"}
        IN /\ out'.grp = rnode
           /\ out'.ran = [r \in 1..n |-> first + r - 1]
           /\ heap' = [heap EXCEPT ![CounterAddr] = @ + Cardinality(counts)]
           /\ out'.retval = IF n = 0 THEN moc_emptyval
                            ELSE ValueGiven(moc_ctx.resps[first + n - 1])]_vars

\* C7 witness: a dispatch has called two responders, the first of which
\* incremented the counter of the test, and has returned the value of the
\* second
C7_Witness ==
    /\ out.op = "moc_act"
    /\ out.handled = <<>>
    /\ Len(out.ran) = 2
    /\ heap[CounterAddr] = 1
    /\ out.retval = moc_ctx.resps[out.ran[2]].rval
    /\ out.retval # moc_emptyval

\* the mapping turns the call down: its first matcher that does not
\* accept its parameter is valid for the call
Rejects(mtcs, funcname, params) ==
    LET res == [m \in DOMAIN mtcs |->
                   MatchOne([ctx |-> moc_ctx, heap |-> HeapZero,
                             handled |-> <<>>, exited |-> FALSE],
                            mtcs[m], m - 1, funcname, Len(params),
                            params).res]
    IN \E m \in DOMAIN mtcs :
          /\ res[m] = "false"
          /\ \A j \in 1..(m - 1) : res[j] = "true"

\* C8: a dispatch to a name and number of parameters for which the
\* registry holds no entry calls the error function once with the error
\* "function not found"; a dispatch to an entry each of whose mappings
\* turns the call down calls it once with "no mapping matched".  Both
\* leave the registry as it was and give the void value back.
C8_NotFoundErrors ==
    [][out'.op = "moc_act" =>
        LET funcname == out'.funcname
            vals == out'.args.vals
            f == FindFunction(moc_ctx, 1, funcname, Len(vals))
            maps == IF f > moc_ctx.nfuncs THEN <<>> ELSE MappingsOf(moc_ctx, f)
            reported(errnum) ==
                /\ out'.handled = <<moc_ctx.errfn>>
                /\ moc_ctx'.lasterr.errnum = errnum
                /\ moc_ctx'.lasterr.funcname = funcname
                /\ Registry(moc_ctx') = Registry(moc_ctx)
                /\ out'.retval = moc_emptyval
                /\ out'.ran = <<>>
        IN /\ f > moc_ctx.nfuncs => reported(MOC_ERR_FUNNOTFND)
           /\ (/\ f <= moc_ctx.nfuncs
               /\ \A i \in DOMAIN maps :
                     Rejects(MatchersOf(moc_ctx, maps[i], Len(vals)),
                             funcname, vals))
              => reported(MOC_ERR_MAPNOTFND)]_vars

\* C8 witness: the error function has returned from "no mapping matched"
\* for an entry that holds a mapping, and the call has given the void
\* value back
C8_Witness ==
    /\ out.op = "moc_act"
    /\ out.handled # <<>>
    /\ ~out.exited
    /\ moc_ctx.lasterr.errnum = MOC_ERR_MAPNOTFND
    /\ moc_ctx.nmaps > 0
    /\ out.retval = moc_emptyval

\* the registry holds one entry, for funcname with two parameters, whose
\* only mapping holds the matchers mtcs and the single group rsps
OnlyConfiguration(ctx, funcname, mtcs, rsps) ==
    /\ ctx.nfuncs = 1
    /\ ctx.nmaps = 1
    /\ ctx.funcs[1].name = funcname
    /\ ctx.funcs[1].nparams = Len(mtcs)
    /\ MappingsOf(ctx, 1) = <<1>>
    /\ ctx.maps[1].nxmatchers = 0
    /\ MatchersOf(ctx, 1, Len(mtcs)) = mtcs
    /\ GroupContentsOf(ctx, 1) = <<rsps>>

\* C9: when the only configuration is f with the matchers moc_eq(a),
\* moc_any() and the responder moc_return(v), a dispatch f(x, y) declared
\* with the type of v returns v without an error when x is a, whatever y
\* is, and reports "no mapping matched" and returns the void value when x
\* has the type of a and another value.
C9_EqualsThenWildcard ==
    \A a \in {moc_i(1)}, v \in {moc_i(7)} :
        (/\ out.op = "moc_act"
         /\ OnlyConfiguration(moc_ctx, NameF, <<moc_eq(a), moc_any>>,
                              <<moc_return(v)>>)
         /\ out.funcname = NameF
         /\ Len(out.args.vals) = 2
         /\ out.args.rettype = v.type
         /\ out.args.vals[1].type = a.type)
        => IF out.args.vals[1] = a
           THEN /\ out.handled = <<>>
                /\ out.retval = v
           ELSE /\ out.handled = <<moc_ctx.errfn>>
                /\ moc_ctx.lasterr.errnum = MOC_ERR_MAPNOTFND
                /\ out.retval = moc_emptyval

\* C9 witness: the configuration moc_eq(1), moc_any() has answered a call
\* whose second parameter is of another type than the first
C9_Witness ==
    /\ out.op = "moc_act"
    /\ OnlyConfiguration(moc_ctx, NameF, <<moc_eq(moc_i(1)), moc_any>>,
                         <<moc_return(moc_i(7))>>)
    /\ out.args.vals = <<moc_i(1), moc_l(1)>>
    /\ out.retval = moc_i(7)

\* the matcher checks the type of the parameter it is given
TypeChecking(pm) == pm.mopts < MOC_MAXPARAMS

\* what an ordinary matcher at position m does with the call: "mismatch"
\* when it checks types and its type is not that of the parameter, else
\* "true" or "false" as its function says
Verdict(pm, param) ==
    IF TypeChecking(pm) /\ pm.mval.type # param.type THEN "mismatch"
    ELSE IF CallMtcPrm(pm.mtcfn, param, pm.mval) THEN "true"
    ELSE "false"

\* the position of the first matcher of mtcs whose verdict is not "true",
\* or 0 when there is none
FirstNotTrue(mtcs, params) ==
    LET S == {m \in DOMAIN mtcs : Verdict(mtcs[m], params[m]) # "true"}
    IN IF S = {} THEN 0 ELSE CHOOSE m \in S : \A j \in S : m <= j

\* the matchers a dispatch comes to, as pairs <<i, m>> of the place of the
\* mapping in the list of its entry and the position of the matcher: in
\* each mapping the matchers up to the first that is not true, in the
\* mappings up to the first that is not turned down
Visited(ctx, f, params) ==
    LET maps == MappingsOf(ctx, f)
        mtcs(i) == MatchersOf(ctx, maps[i], Len(params))
        stop(i) == FirstNotTrue(mtcs(i), params)
        turneddown(i) ==
            stop(i) # 0 /\ Verdict(mtcs(i)[stop(i)], params[stop(i)]) = "false"
    IN {im \in (DOMAIN maps) \X (1..Len(params)) :
           /\ \A j \in 1..(im[1] - 1) : turneddown(j)
           /\ stop(im[1]) = 0 \/ im[2] <= stop(im[1])}

\* C10: a dispatch to an entry reports "unexpected parameter type" exactly
\* when it comes to a type-checking matcher whose type is not the type of
\* its parameter; the error then holds the position of that matcher
\* counted from 1, the type of the parameter as the actual type and the
\* type of the matcher as the expected one, and the void value is given
\* back.  Matchers whose type is the parameter's raise no such error.
C10_TypeErrorIffTagsDiffer ==
    (out.op = "moc_act"
     /\ FindFunction(moc_ctx, 1, out.funcname, Len(out.args.vals))
            <= moc_ctx.nfuncs)
    => LET vals == out.args.vals
           f == FindFunction(moc_ctx, 1, out.funcname, Len(vals))
           maps == MappingsOf(moc_ctx, f)
           pm(im) == MatchersOf(moc_ctx, maps[im[1]], Len(vals))[im[2]]
           bad == {im \in Visited(moc_ctx, f, vals) :
                      /\ TypeChecking(pm(im))
                      /\ pm(im).mval.type # vals[im[2]].type}
           reported == /\ out.handled # <<>>
                      /\ moc_ctx.lasterr.errnum = MOC_ERR_PARAMTYPE
       IN /\ reported <=> bad # {}
          /\ \A im \in bad :
                /\ out.handled = <<moc_ctx.errfn>>
                /\ moc_ctx.lasterr.pos = im[2]
                /\ moc_ctx.lasterr.acttype = vals[im[2]].type
                /\ moc_ctx.lasterr.exptype = pm(im).mval.type
                /\ moc_ctx.lasterr.funcname = out.funcname
                /\ out.retval = moc_emptyval
                /\ out.sel = 0

\* C10 witness: the error function has returned from "unexpected parameter
\* type" raised by the second matcher of a mapping, a typed wildcard, and
\* the call has given the void value back
C10_Witness ==
    /\ out.op = "moc_act"
    /\ out.handled # <<>>
    /\ ~out.exited
    /\ moc_ctx.lasterr.errnum = MOC_ERR_PARAMTYPE
    /\ moc_ctx.lasterr.pos = 2
    /\ moc_ctx.lasterr.acttype = moc_type_l
    /\ moc_ctx.lasterr.exptype = moc_type_i
    /\ \E i \in 1..moc_ctx.nmaps :
          MatchersOf(moc_ctx, i, 2)[2] = moc_any_i
    /\ out.retval = moc_emptyval


\* C11: a dispatch to an entry whose first mapping has no extra matchers
\* and the untyped wildcard moc_any() at every one of its 1..MOC_AUXMAX
\* positions takes this mapping, whatever the types and the data of the
\* parameters, and no matcher reports an unexpected parameter type.
C11_AnyPassesEveryParameter ==
    out.op = "moc_act" =>
        LET n == Len(out.args.vals)
            f == FindFunction(moc_ctx, 1, out.funcname, n)
        IN (f <= moc_ctx.nfuncs /\ n >= 1) =>
            LET first == MappingsOf(moc_ctx, f)[1]
            IN (/\ moc_ctx.maps[first].nxmatchers = 0
                /\ \A m \in 1..n :
                      moc_ctx.matcs[moc_ctx.maps[first].matchers + m - 1]
                          = moc_any)
               => /\ out.sel = first
                  /\ \A m \in 1..n :
                        MatchOne(Env, moc_any, m - 1, out.funcname, n,
                                 out.args.vals).res = "true"
                  /\ out.handled # <<>> =>
                        moc_ctx.lasterr.errnum # MOC_ERR_PARAMTYPE

\* C11 witness: a call of MOC_AUXMAX parameters, one of them a pointer, has
\* been answered by a mapping of untyped wildcards
C11_Witness ==
    /\ out.op = "moc_act"
    /\ Len(out.args.vals) = MOC_AUXMAX
    /\ \E m \in DOMAIN out.args.vals :
          MOC_PTRTYPE(out.args.vals[m].type) = MOC_CPTR
    /\ out.sel # 0
    /\ \A m \in 1..MOC_AUXMAX :
          moc_ctx.matcs[moc_ctx.maps[out.sel].matchers + m - 1] = moc_any
    /\ out.handled = <<>>
    /\ out.retval = moc_i(7)


\* C12: when the responders of a dispatch have run and the type of the value
\* the last of them gave is not the return type the call declared, the
\* error function is called once with the error MOC_ERR_RETURTYPE saved
\* (position 0, actual type the type of the value, expected type the
\* declared one), and if the error function returns the call returns that
\* value, not the void value.
C12_ReturnTypeError ==
    (out.op = "moc_act" /\ out.ran # <<>>) =>
        LET given == ValueGiven(moc_ctx.resps[out.ran[Len(out.ran)]])
        IN given.type # out.args.rettype =>
            /\ Len(out.handled) = 1
            /\ moc_ctx.lasterr =
                  moc_init_error_t(MOC_ERR_RETURTYPE, out.funcname, 0,
                                   given.type, out.args.rettype)
            /\ ~out.exited => (out.retval = given /\ out.retval # moc_emptyval)

\* C12 witness: a call that declared a long has come back, after the error
\* function returned, with the int its responder gave
C12_Witness ==
    /\ out.op = "moc_act"
    /\ out.ran # <<>>
    /\ out.args.rettype = moc_type_l
    /\ out.handled # <<>>
    /\ ~out.exited
    /\ moc_ctx.lasterr.errnum = MOC_ERR_RETURTYPE
    /\ out.retval = moc_i(7)


\* the five counts and the elements of the five regions that are in use
InUse(ctx) ==
    [nfuncs |-> ctx.nfuncs, nmaps |-> ctx.nmaps, nmatcs |-> ctx.nmatcs,
     nresps |-> ctx.nresps, nlnods |-> ctx.nlnods,
     funcs |-> [i \in 1..ctx.nfuncs |-> ctx.funcs[i]],
     maps |-> [i \in 1..ctx.nmaps |-> ctx.maps[i]],
     matcs |-> [i \in 1..ctx.nmatcs |-> ctx.matcs[i]],
     resps |-> [i \in 1..ctx.nresps |-> ctx.resps[i]],
     lnods |-> [i \in 1..ctx.nlnods |-> ctx.lnods[i]]]

\* the kinds of elements, named by their error numbers, of which the
\* context has fewer free than a configuration needs: an entry when none has
\* the name and the number of parameters, a mapping with its matchers and
\* its list node when the search finds none to add the responders to, the
\* responders and their list node
LackingKinds(ctx, funcname, mtcs, xmtcs, rsps) ==
    LET c == moc_match_n(ctx, mtcs)
        f == FindFunction(c, 1, funcname, Len(mtcs))
        newfun == f > c.nfuncs
        newmap == \/ newfun
                  \/ SearchMapping(c, c.funcs[f].lmaps.first, c.auxmatcs,
                                   Len(mtcs), Len(xmtcs)) = MOC_NULLNODE
    IN (IF newfun /\ c.maxfuncs - c.nfuncs < 1
        THEN {MOC_ERR_NFUNLIMIT} ELSE {})
       \cup (IF newmap /\ c.maxmaps - c.nmaps < 1
             THEN {MOC_ERR_NMAPLIMIT} ELSE {})
       \cup (IF newmap /\ c.maxmatcs - c.nmatcs < Len(mtcs) + Len(xmtcs)
             THEN {MOC_ERR_NMTCLIMIT} ELSE {})
       \cup (IF c.maxresps - c.nresps < Len(rsps)
             THEN {MOC_ERR_NRSPLIMIT} ELSE {})
       \cup (IF c.maxlnods - c.nlnods < (IF newmap THEN 2 ELSE 1)
             THEN {MOC_ERR_NNODLIMIT} ELSE {})

LimitErrors ==
    {MOC_ERR_NFUNLIMIT, MOC_ERR_NMAPLIMIT, MOC_ERR_NMTCLIMIT,
     MOC_ERR_NRSPLIMIT, MOC_ERR_NNODLIMIT}

\* C13: a configuration for which the context lacks elements of some kinds
\* calls the error function once with the limit error of one of these
\* kinds saved, and leaves the five counts and every element in use (so
\* every entry, every list of mappings and every list of responders) as
\* they were; a limit error is reported for no other configuration.
C13_LimitLeavesRegistry ==
    [][out'.op = "moc_given" =>
        LET lack == LackingKinds(moc_ctx, out'.funcname, out'.args.mtcs,
                                 out'.args.xmtcs, out'.args.rsps)
        IN /\ lack # {} =>
                /\ out'.handled = <<moc_ctx.errfn>>
                /\ moc_ctx'.lasterr =
                      moc_init_error_t(moc_ctx'.lasterr.errnum,
                                       out'.funcname, 0, 0, 0)
                /\ moc_ctx'.lasterr.errnum \in lack
                /\ InUse(moc_ctx') = InUse(moc_ctx)
           /\ (/\ out'.handled # <<>>
               /\ moc_ctx'.lasterr.errnum \in LimitErrors) => lack # {}]_vars

\* C13 witness: a configuration for an entry the context does not hold
\* has been turned down for lack of list nodes while a slot for the entry
\* was free
C13_Witness ==
    /\ out.op = "moc_given"
    /\ out.handled # <<>>
    /\ ~out.exited
    /\ moc_ctx.lasterr.errnum = MOC_ERR_NNODLIMIT
    /\ moc_ctx.nfuncs >= 1
    /\ moc_ctx.nfuncs < moc_ctx.maxfuncs
    /\ FindFunction(moc_ctx, 1, out.funcname, Len(out.args.mtcs))
          > moc_ctx.nfuncs


\* C14: in every state each of the five counts is at least 0 and at most
\* the capacity of its kind, and no step other than a call of moc_init
\* makes a count smaller.
C14_CountsWithinCapacity ==
    /\ [](\A k \in 1..5 : /\ Counts(moc_ctx)[k] >= 0
                           /\ Counts(moc_ctx)[k] <= Capacities(moc_ctx)[k])
    /\ [][out'.op # "moc_init" =>
            \A k \in 1..5 : Counts(moc_ctx')[k] >= Counts(moc_ctx)[k]]_vars

\* C14 witness: a configuration with more than one responder has taken the
\* last free responders
C14_Witness ==
    /\ out.op = "moc_given"
    /\ out.handled = <<>>
    /\ moc_ctx.nresps = moc_ctx.maxresps
    /\ moc_ctx.nlnods > 0
    /\ Len(out.args.rsps) > 1


\* C15: after moc_init(mem, size) the capacity of each of the five kinds is
\* the quotient of size by 5 times the size of an element of the kind, for
\* every size.
C15_CapacityIsQuotient ==
    out.op = "moc_init" =>
        Capacities(moc_ctx) =
            <<out.args \div (5 * SizeofFunction),
              out.args \div (5 * SizeofMapping),
              out.args \div (5 * SizeofMatcher),
              out.args \div (5 * SizeofResponder),
              out.args \div (5 * SizeofListnode)>>


\* the context with every element that is not in use taken out of reach
Clean(ctx) ==
    [ctx EXCEPT
        !.funcs = [i \in DOMAIN @ |-> IF i <= ctx.nfuncs THEN @[i] ELSE Unset],
        !.maps = [i \in DOMAIN @ |-> IF i <= ctx.nmaps THEN @[i] ELSE Unset],
        !.matcs = [i \in DOMAIN @ |-> IF i <= ctx.nmatcs THEN @[i] ELSE Unset],
        !.resps = [i \in DOMAIN @ |-> IF i <= ctx.nresps THEN @[i] ELSE Unset],
        !.lnods = [i \in DOMAIN @ |-> IF i <= ctx.nlnods THEN @[i] ELSE Unset]]

EnvOf(ctx) == [ctx |-> ctx, heap |-> HeapZero, handled |-> <<>>,
               exited |-> FALSE]

\* what a test can see of a call, and what later calls work on
Seen(E) ==
    [handled |-> E.handled, lasterr |-> E.ctx.lasterr, heap |-> E.heap,
     inuse |-> InUse(E.ctx)]

\* a dispatch reports that no entry has the name and number of parameters
NotFound(ctx, funcname, vals) ==
    LET r == moc_act(EnvOf(ctx), funcname, moc_type_i, vals)
    IN /\ r.E.handled = <<ctx.errfn>>
       /\ r.E.ctx.lasterr =
             moc_init_error_t(MOC_ERR_FUNNOTFND, funcname, Len(vals), 0, 0)
       /\ r.retval = moc_emptyval
       /\ r.ran = <<>>

Calls == {"moc_given", "moc_given_extra", "moc_act"}

\* the position and the types an error record holds fit its kind
FitsKind(e, nparams, rettype) ==
    /\ e.errnum \in LimitErrors =>
          (e.pos = 0 /\ e.acttype = 0 /\ e.exptype = 0)
    /\ e.errnum \in {MOC_ERR_FUNNOTFND, MOC_ERR_MAPNOTFND} =>
          (e.pos = nparams /\ e.acttype = 0 /\ e.exptype = 0)
    /\ e.errnum = MOC_ERR_PARAMTYPE =>
          (e.pos >= 1 /\ e.acttype # e.exptype)
    /\ e.errnum = MOC_ERR_RETURTYPE =>
          (e.pos = 0 /\ e.exptype = rettype /\ e.acttype # rettype)

\* C17: a configuration or dispatch that fails calls, once, the error
\* function that was installed when the call began, after the record of
\* the last error has been given the kind, the name, the position and the
\* types of this failure and an empty message: when the error function
\* returns the message is empty, or, if the error function read it, is the
\* text of this failure.  The installed error function is moc_error after
\* moc_init, the one passed after moc_set_errfn, and no other call changes
\* it.
C17_LastErrorIsLatest ==
    /\ [][(out'.op \in Calls /\ out'.handled # <<>>) =>
            /\ out'.handled = <<moc_ctx.errfn>>
            /\ moc_ctx'.lasterr.errnum \in
                  MOC_ERR_NFUNLIMIT..MOC_ERR_INVNPARAM
            /\ moc_ctx'.lasterr.funcname = out'.funcname
            /\ out'.op = "moc_act" =>
                  FitsKind(moc_ctx'.lasterr, Len(out'.args.vals),
                           out'.args.rettype)
            /\ out'.op # "moc_act" => FitsKind(moc_ctx'.lasterr, 0, 0)
            /\ moc_ctx'.lasterr.errmsg =
                  IF ErrfnReadsErrmsg(moc_ctx.errfn)
                  THEN <<ErrmsgText(moc_ctx'.lasterr)>>
                  ELSE <<>>]_vars
    /\ [][/\ out'.op = "moc_init" => moc_ctx'.errfn = "moc_error"
          /\ out'.op = "moc_set_errfn" => moc_ctx'.errfn = out'.args
          /\ out'.op \notin {"moc_init", "moc_set_errfn"} =>
                moc_ctx'.errfn = moc_ctx.errfn]_vars

\* C17 witness: a dispatch to a function that is not configured has been
\* reported to an error function that does not read the message, in a
\* context whose last error before was of another kind
C17_Witness ==
    /\ out.op = "moc_act"
    /\ out.handled = <<"test_errfn">>
    /\ out.funcname = NameG
    /\ moc_ctx.lasterr.errnum = MOC_ERR_FUNNOTFND
    /\ moc_ctx.lasterr.funcname = NameG
    /\ moc_ctx.lasterr.errmsg = <<>>
    /\ moc_ctx.nfuncs > 0


\* C18 (as the specification states it): whenever a configuration or a
\* dispatch has reported an error and the error function has returned, the
\* call returns the void value.
C18_ErrorReturnsVoid ==
    (out.op \in Calls /\ out.handled # <<>> /\ ~out.exited) =>
        out.retval = moc_emptyval

\* s is t without its last elements
IsPrefix(s, t) ==
    /\ Len(s) <= Len(t)
    /\ \A i \in 1..Len(s) : s[i] = t[i]

\* C19 (as the specification states it): between two moc_init the list of
\* responder groups of every mapping is changed only by a configuration,
\* which appends one group, and by a dispatch that reported no error, which
\* moves the first group to the end; a dispatch that reported an error
\* leaves every list as it was.
C19_GroupListsChange ==
    [][out'.op # "moc_init" =>
        \A mapidx \in 1..moc_ctx.nmaps :
            LET before == GroupsOf(moc_ctx, mapidx)
                after == GroupsOf(moc_ctx', mapidx)
            IN \/ after = before
               \/ /\ out'.op \in {"moc_given", "moc_given_extra"}
                  /\ Len(after) = Len(before) + 1
                  /\ IsPrefix(before, after)
               \/ /\ out'.op = "moc_act"
                  /\ out'.handled = <<>>
                  /\ before # <<>>
                  /\ after = Tail(before) \o <<Head(before)>>]_<<out.op>>

\* C20: between two moc_init, on every call and for every function entry,
\* the list of mappings the entry had before the call is a prefix of the
\* list it has after it: a configuration adds at most one mapping, at the
\* end, and a dispatch, failed or not, leaves the list as it was.
C20_MappingsAppendOnly ==
    [][out'.op # "moc_init" =>
        \A f \in 1..moc_ctx.nfuncs :
            LET before == MappingsOf(moc_ctx, f)
                after == MappingsOf(moc_ctx', f)
            IN /\ IsPrefix(before, after)
               /\ Len(after) <= Len(before) + 1
               /\ out'.op \notin {"moc_given", "moc_given_extra"} =>
                     after = before]_<<out.op>>

\* C20 witness: a configuration has added a second mapping to an entry,
\* in the slot taken last
C20_Witness ==
    /\ out.op = "moc_given"
    /\ out.handled = <<>>
    /\ \E f \in 1..moc_ctx.nfuncs :
          /\ Len(MappingsOf(moc_ctx, f)) = 2
          /\ MappingsOf(moc_ctx, f)[2] = moc_ctx.nmaps
          /\ Len(GroupsOf(moc_ctx, moc_ctx.nmaps)) = 1

\* the entries in use that have the name and the number of parameters
EntriesOf(ctx, funcname, nparams) ==
    {f \in 1..ctx.nfuncs :
        ctx.funcs[f].name = funcname /\ ctx.funcs[f].nparams = nparams}

\* C21: no two entries have the same name and the same number of
\* parameters.  A configuration that reports no error adds one entry, with
\* its name and its number of ordinary matchers, when no entry had both,
\* and adds none when one had; entries with the same name and another
\* number of parameters are left with the mappings they had.  A dispatch
\* with n parameters reports that the function was not found when no entry
\* has the name and n parameters, and otherwise takes its mapping from the
\* list of that entry.
C21_EntryIsNameAndArity ==
    /\ [](\A f1, f2 \in 1..moc_ctx.nfuncs :
            (/\ moc_ctx.funcs[f1].name = moc_ctx.funcs[f2].name
             /\ moc_ctx.funcs[f1].nparams = moc_ctx.funcs[f2].nparams)
                => f1 = f2)
    /\ [][(out'.op = "moc_given" /\ out'.handled = <<>>) =>
            LET n == Len(out'.args.mtcs)
                had == EntriesOf(moc_ctx, out'.funcname, n)
            IN /\ had = {} =>
                    /\ moc_ctx'.nfuncs = moc_ctx.nfuncs + 1
                    /\ EntriesOf(moc_ctx', out'.funcname, n)
                          = {moc_ctx'.nfuncs}
               /\ had # {} => moc_ctx'.nfuncs = moc_ctx.nfuncs
               /\ \A f \in 1..moc_ctx.nfuncs :
                    /\ moc_ctx'.funcs[f].name = moc_ctx.funcs[f].name
                    /\ moc_ctx'.funcs[f].nparams = moc_ctx.funcs[f].nparams
                    /\ f \notin had =>
                          MappingsOf(moc_ctx', f) = MappingsOf(moc_ctx, f)
          ]_<<out.op>>
    /\ [][out'.op = "moc_act" =>
            LET n == Len(out'.args.vals)
                has == EntriesOf(moc_ctx, out'.funcname, n)
            IN /\ has = {} =>
                    /\ out'.handled # <<>>
                    /\ moc_ctx'.lasterr.errnum = MOC_ERR_FUNNOTFND
                    /\ out'.sel = 0
               /\ has # {} =>
                    /\ moc_ctx'.lasterr.errnum = MOC_ERR_FUNNOTFND
                          => out'.handled = <<>>
                    /\ out'.sel # 0 =>
                          \E f \in has :
                              out'.sel \in Range(MappingsOf(moc_ctx, f))
          ]_<<out.op>>

\* C21 witness: two entries have one name and two numbers of parameters,
\* and a dispatch with the name has taken the mapping of the entry that has
\* its number of parameters, the second one
C21_Witness ==
    /\ out.op = "moc_act"
    /\ moc_ctx.nfuncs = 2
    /\ moc_ctx.funcs[1].name = out.funcname
    /\ moc_ctx.funcs[2].name = out.funcname
    /\ moc_ctx.funcs[1].nparams # Len(out.args.vals)
    /\ moc_ctx.funcs[2].nparams = Len(out.args.vals)
    /\ out.sel \in Range(MappingsOf(moc_ctx, 2))

\* C22 (as the specification states it): two values of valid types, the
\* void one included, are equal exactly when their types are equal and
\* their data are: the addresses for the types with an indirection, the
\* primitives for the others.
C22_ValuesEqual ==
    out.op = "moc_values_eq" =>
        (out.args.eq <=> (/\ out.args.val1.type = out.args.val2.type
                          /\ out.args.val1.data = out.args.val2.data))

\* the same for the values that are not the void value
C22_ValuesEqualNotVoid ==
    (out.op = "moc_values_eq" /\ out.args.val1 # moc_emptyval) =>
        (out.args.eq <=> (/\ out.args.val1.type = out.args.val2.type
                          /\ out.args.val1.data = out.args.val2.data))

\* C23: for every type that has a constructor and an accessor, and every
\* raw value, the least and the greatest of each integer type among them,
\* the accessor gives for the value the constructor built the bytes the
\* value was built from.
C23_AccessorRoundTrip ==
    (out.op = "moc_get" /\ out.args.fn # "void") =>
        out.args.got = out.args.raw

\* C23 witness: the greatest long and the least int have come back
C23_Witness ==
    /\ out.op = "moc_get"
    /\ \/ /\ out.args.fn = "l"
          /\ out.args.got = <<255, 255, 255, 255, 255, 255, 255, 127>>
       \/ /\ out.args.fn = "i"
          /\ out.args.got = <<0, 0, 0, 128>>

\* the kind and the indirection the name of a constructor stands for
KindOfName ==
    [void |-> <<MOC_VOID, MOC_NOPTR>>, c |-> <<MOC_CHR, MOC_NOPTR>>,
     s |-> <<MOC_SHR, MOC_NOPTR>>, i |-> <<MOC_INT, MOC_NOPTR>>,
     l |-> <<MOC_LNG, MOC_NOPTR>>, f |-> <<MOC_FLT, MOC_NOPTR>>,
     d |-> <<MOC_DBL, MOC_NOPTR>>, sc |-> <<MOC_SCHR, MOC_NOPTR>>,
     uc |-> <<MOC_UCHR, MOC_NOPTR>>, us |-> <<MOC_USHR, MOC_NOPTR>>,
     ui |-> <<MOC_UINT, MOC_NOPTR>>, ul |-> <<MOC_ULNG, MOC_NOPTR>>,
     fn |-> <<MOC_FUN, MOC_NOPTR>>, p |-> <<MOC_VOID, MOC_PTR>>,
     p_c |-> <<MOC_CHR, MOC_PTR>>, p_s |-> <<MOC_SHR, MOC_PTR>>,
     p_i |-> <<MOC_INT, MOC_PTR>>, p_l |-> <<MOC_LNG, MOC_PTR>>,
     p_f |-> <<MOC_FLT, MOC_PTR>>, p_d |-> <<MOC_DBL, MOC_PTR>>,
     p_sc |-> <<MOC_SCHR, MOC_PTR>>, p_uc |-> <<MOC_UCHR, MOC_PTR>>,
     p_us |-> <<MOC_USHR, MOC_PTR>>, p_ui |-> <<MOC_UINT, MOC_PTR>>,
     p_ul |-> <<MOC_ULNG, MOC_PTR>>, p_fn |-> <<MOC_FUN, MOC_PTR>>,
     cp |-> <<MOC_VOID, MOC_CPTR>>, cp_c |-> <<MOC_CHR, MOC_CPTR>>,
     cp_s |-> <<MOC_SHR, MOC_CPTR>>, cp_i |-> <<MOC_INT, MOC_CPTR>>,
     cp_l |-> <<MOC_LNG, MOC_CPTR>>, cp_f |-> <<MOC_FLT, MOC_CPTR>>,
     cp_d |-> <<MOC_DBL, MOC_CPTR>>, cp_sc |-> <<MOC_SCHR, MOC_CPTR>>,
     cp_uc |-> <<MOC_UCHR, MOC_CPTR>>, cp_us |-> <<MOC_USHR, MOC_CPTR>>,
     cp_ui |-> <<MOC_UINT, MOC_CPTR>>, cp_ul |-> <<MOC_ULNG, MOC_CPTR>>,
     cp_fn |-> <<MOC_FUN, MOC_CPTR>>]

\* C24: the value a constructor builds has the type byte kind * 4 +
\* indirection of the kind (0 to 12) and the indirection (0 to 2) its name
\* stands for, the function moc_type_ of the same name returns that byte,
\* and two names that differ in kind or indirection have different bytes.
C24_TagIsKindAndIndirection ==
    /\ out.op = "moc_get" =>
          LET exp == KindOfName[out.args.fn]
          IN /\ exp[1] \in 0..12
             /\ exp[2] \in 0..2
             /\ out.args.type = exp[1] * 4 + exp[2]
             /\ out.args.typefn = out.args.type
    /\ \A n1, n2 \in DOMAIN ValueFns :
          moc_value_of(ValueFns[n1], [i \in 1..SizeofData |-> 0]).type
            = moc_value_of(ValueFns[n2], [i \in 1..SizeofData |-> 0]).type
              => n1 = n2
    /\ Cardinality({KindOfName[ValueFns[n].fn] : n \in DOMAIN ValueFns})
          = Len(ValueFns)

\* C24 witness: a read-only address of a function address has been built,
\* with the type byte 12 * 4 + 2
C24_Witness ==
    /\ out.op = "moc_get"
    /\ out.args.fn = "cp_fn"
    /\ out.args.type = 50
    /\ out.args.typefn = 50

\* the number of the parameter a matcher at position p speaks of: p for an
\* ordinary matcher, the number it was built with for an extra one
RefOf(mtc, p, n) ==
    IF p <= n THEN p
    ELSE IF mtc.mopts > 128 THEN mtc.mopts - 128 ELSE mtc.mopts

\* an extra matcher on one parameter that names a parameter of the call
NamesParameter(mtc, n) ==
    /\ mtc.mopts \notin {0, 128, MOC_MAXPARAMS, 128 + MOC_MAXPARAMS}
    /\ RefOf(mtc, n + 1, n) \in 1..n

\* what the matcher at position p says of the call: "error" when its type
\* is checked and is not the type of its parameter, else whether its
\* function accepts its parameter
VerdictOf(mtc, p, params) ==
    LET j == RefOf(mtc, p, Len(params))
    IN IF mtc.mopts < 128 /\ mtc.mval.type # params[j].type
       THEN "error"
       ELSE IF CallMtcPrm(mtc.mtcfn, params[j], mtc.mval)
            THEN "true" ELSE "false"

RECURSIVE VerdictOfMapping(_, _, _)
\* the verdicts of the matchers from position p on, taken in order:
\* [res, pos], res being "true" when all accept, else the verdict of the
\* first that does not, at pos
VerdictOfMapping(mtcs, p, params) ==
    IF p > Len(mtcs)
    THEN [res |-> "true", pos |-> 0]
    ELSE IF VerdictOf(mtcs[p], p, params) = "true"
         THEN VerdictOfMapping(mtcs, p + 1, params)
         ELSE [res |-> VerdictOf(mtcs[p], p, params), pos |-> p]

RECURSIVE VerdictOfEntry(_, _, _, _)
\* the mappings of an entry taken in the order of its list from the i-th
\* on: [res, pos, sel] with res "found" (sel is the mapping), "error" (at
\* pos of sel) or "none"
VerdictOfEntry(ctx, maps, i, params) ==
    IF i > Len(maps)
    THEN [res |-> "none", pos |-> 0, sel |-> 0]
    ELSE LET v == VerdictOfMapping(MatchersOf(ctx, maps[i], Len(params)), 1,
                                   params)
         IN IF v.res = "true"
            THEN [res |-> "found", pos |-> 0, sel |-> maps[i]]
            ELSE IF v.res = "error"
                 THEN [res |-> "error", pos |-> v.pos, sel |-> maps[i]]
                 ELSE VerdictOfEntry(ctx, maps, i + 1, params)

\* every ordinary matcher of the mappings of the entry is an ordinary one,
\* and every extra matcher names a parameter of the function
ExtrasNameParameters(ctx, f) ==
    LET n == ctx.funcs[f].nparams
    IN \A i \in DOMAIN MappingsOf(ctx, f) :
          LET mtcs == MatchersOf(ctx, MappingsOf(ctx, f)[i], n)
          IN \A p \in DOMAIN mtcs :
                IF p <= n THEN mtcs[p].mopts \in {0, 128}
                ELSE NamesParameter(mtcs[p], n)

\* C25: when every extra matcher of the mappings of the function called
\* names a parameter j of the n the function has, the dispatch goes as if
\* each extra matcher, whatever its place among the extra matchers, had
\* been given the j-th parameter: a matcher built with type check whose
\* type is not that of the j-th parameter ends the dispatch with the error
\* of the parameter type (the position of the matcher, the type of the
\* j-th parameter, the type of the matcher), a matcher whose function
\* refuses the j-th parameter makes the mapping be passed over, and the
\* first mapping all of whose matchers accept is the one taken.
C25_ExtraMatcherReadsItsParameter ==
    (out.op = "moc_act" /\ EntriesOf(moc_ctx, out.funcname,
                                     Len(out.args.vals)) # {}) =>
        LET f == CHOOSE e \in EntriesOf(moc_ctx, out.funcname,
                                        Len(out.args.vals)) : TRUE
            v == VerdictOfEntry(moc_ctx, MappingsOf(moc_ctx, f), 1,
                                out.args.vals)
            bad == MatchersOf(moc_ctx, v.sel, Len(out.args.vals))[v.pos]
        IN ExtrasNameParameters(moc_ctx, f) =>
            /\ v.res = "found" => (out.handled = <<>> /\ out.sel = v.sel)
            /\ v.res = "none" =>
                  /\ out.handled # <<>>
                  /\ moc_ctx.lasterr.errnum = MOC_ERR_MAPNOTFND
            /\ v.res = "error" =>
                  /\ out.handled # <<>>
                  /\ moc_ctx.lasterr =
                        moc_init_error_t(MOC_ERR_PARAMTYPE, out.funcname,
                            v.pos,
                            out.args.vals[RefOf(bad, v.pos,
                                                Len(out.args.vals))].type,
                            bad.mval.type)

\* C25 witness: a function of two parameters has been called with 2 and 1,
\* and the mapping taken has as its first extra matcher one that compares
\* the second parameter with 1
C25_Witness ==
    /\ out.op = "moc_act"
    /\ out.args.vals = <<moc_i(2), moc_i(1)>>
    /\ out.sel # 0
    /\ moc_ctx.maps[out.sel].nxmatchers > 0
    /\ RefOf(MatchersOf(moc_ctx, out.sel, 2)[3], 3, 2) = 2
    /\ out.retval = moc_i(7)

\* a matcher built for the other place: at an ordinary position one that
\* was not built with moc_mparam or moc_mparam_nochk, at an extra position
\* one that was
Misplaced(mtc, p, n) ==
    IF p <= n THEN mtc.mopts \notin {0, 128} ELSE mtc.mopts \in {0, 128}

\* an extra matcher on one parameter that names no parameter of the call
OutOfRange(mtc, p, n) ==
    /\ p > n
    /\ mtc.mopts # 128 + MOC_MAXPARAMS
    /\ (mtc.mopts = MOC_MAXPARAMS \/ RefOf(mtc, p, n) > n)

\* an ordering comparison with the address of a function
OrdersFunctions(mtc) ==
    /\ mtc.mval.type = MOC_TYPES2BYTE(MOC_FUN, MOC_NOPTR)
    /\ mtc.mtcfn \in {"moc_cmplt", "moc_cmple", "moc_cmpgt", "moc_cmpge"}

\* what the matching of one matcher at position p gives: the fault found
\* by the validations, taken in their order ("placement", "number",
\* "operator", "type"), else whether the function of the matcher accepts
StepOf(mtc, p, params) ==
    IF Misplaced(mtc, p, Len(params)) THEN "placement"
    ELSE IF OutOfRange(mtc, p, Len(params)) THEN "number"
    ELSE IF OrdersFunctions(mtc) THEN "operator"
    ELSE IF mtc.mopts = 128 + MOC_MAXPARAMS
    THEN IF CallMtcCll(mtc.mtcfn, moc_call(<<>>, Len(params), params), mtc.mval)
         THEN "true" ELSE "false"
    ELSE IF VerdictOf(mtc, p, params) = "error" THEN "type"
    ELSE VerdictOf(mtc, p, params)

RECURSIVE OutcomeOfMapping(_, _, _)
\* the matchers from position p on, taken in order: [res, pos], res being
\* "true" when all accept, else what the first that does not gives, at pos
OutcomeOfMapping(mtcs, p, params) ==
    IF p > Len(mtcs)
    THEN [res |-> "true", pos |-> 0]
    ELSE IF StepOf(mtcs[p], p, params) = "true"
         THEN OutcomeOfMapping(mtcs, p + 1, params)
         ELSE [res |-> StepOf(mtcs[p], p, params), pos |-> p]

RECURSIVE OutcomeOfEntry(_, _, _, _)
\* the mappings of an entry taken in the order of its list from the i-th
\* on: [res, pos, sel] with res "found" (sel is the mapping), "none", or
\* the fault of the matcher at pos of the mapping sel
OutcomeOfEntry(ctx, maps, i, params) ==
    IF i > Len(maps)
    THEN [res |-> "none", pos |-> 0, sel |-> 0]
    ELSE LET v == OutcomeOfMapping(MatchersOf(ctx, maps[i], Len(params)), 1,
                                   params)
         IN IF v.res = "true"
            THEN [res |-> "found", pos |-> 0, sel |-> maps[i]]
            ELSE IF v.res = "false"
                 THEN OutcomeOfEntry(ctx, maps, i + 1, params)
                 ELSE [res |-> v.res, pos |-> v.pos, sel |-> maps[i]]

\* the outcome of the matching of the dispatch just made, which found its
\* entry
OutcomeOfLastAct ==
    LET f == CHOOSE e \in EntriesOf(moc_ctx, out.funcname,
                                    Len(out.args.vals)) : TRUE
    IN OutcomeOfEntry(moc_ctx, MappingsOf(moc_ctx, f), 1, out.args.vals)

\* a dispatch has just been made and the function was found
ActOnEntry ==
    /\ out.op = "moc_act"
    /\ EntriesOf(moc_ctx, out.funcname, Len(out.args.vals)) # {}

\* C26: when the matching of a dispatch, going through the mappings of
\* the function in order and through the matchers of each by position,
\* comes to a matcher at an ordinary position p that was built for the
\* extra places or for the whole call, or to a matcher at an extra
\* position p that was built for an ordinary place, the dispatch reports
\* the error of the invalid matcher with the position p, takes no mapping
\* and, when the error function returns, gives back the empty value.
C26_MisplacedMatcherReported ==
    (ActOnEntry /\ OutcomeOfLastAct.res = "placement") =>
        /\ out.handled # <<>>
        /\ moc_ctx.lasterr =
              moc_init_error_t(MOC_ERR_INVALMTCH, out.funcname,
                               OutcomeOfLastAct.pos, 0, 0)
        /\ out.sel = 0
        /\ out.ran = <<>>
        /\ out.retval = moc_emptyval

\* C26 witness: a function of two parameters whose second ordinary matcher
\* was built with moc_xparam_nochk has been called with 1 and 2, the error
\* function returned and the dispatch gave back the empty value
C26_Witness ==
    /\ ActOnEntry
    /\ out.args.vals = <<moc_i(1), moc_i(2)>>
    /\ OutcomeOfLastAct.res = "placement"
    /\ OutcomeOfLastAct.pos = 2
    /\ out.handled = <<"test_errfn">>
    /\ ~out.exited
    /\ out.retval = moc_emptyval

\* the number of the parameter a responder on one parameter was built for
RefOfResponder(rsp) ==
    IF rsp.ropts > 128 THEN rsp.ropts - 128 ELSE rsp.ropts

\* a responder on one parameter that names no parameter of the call
ResponderOutOfRange(rsp, n) ==
    /\ rsp.ropts # 128 + MOC_MAXPARAMS
    /\ (rsp.ropts = MOC_MAXPARAMS \/ RefOfResponder(rsp) > n)

\* what the validation of one responder gives: "number", "type" (built
\* with type check, and its type is not that of its parameter) or "true"
StepOfResponder(rsp, params) ==
    IF ResponderOutOfRange(rsp, Len(params)) THEN "number"
    ELSE IF /\ rsp.ropts < MOC_MAXPARAMS
            /\ rsp.rval.type # params[rsp.ropts].type
    THEN "type"
    ELSE "true"

\* the validation of the responders of the group first in the list of the
\* mapping taken, in order: [res, pos], pos being the place of the first
\* responder at fault, counted from 1 in the group, or 0
OutcomeOfResponders(ctx, mapidx, params) ==
    LET grp == GroupsOf(ctx, mapidx)[1]
        bad == {r \in DOMAIN grp :
                   StepOfResponder(ctx.resps[grp[r]], params) # "true"}
        r1 == CHOOSE r \in bad : \A q \in bad : r <= q
    IN IF bad = {}
       THEN [res |-> "true", pos |-> 0]
       ELSE [res |-> StepOfResponder(ctx.resps[grp[r1]], params), pos |-> r1]

\* the dispatch just made, which found its entry, took a mapping by its
\* matchers and came to a responder that names no parameter of the call
ResponderNumberFault ==
    /\ OutcomeOfLastAct.res = "found"
    /\ OutcomeOfResponders(moc_ctx, OutcomeOfLastAct.sel,
                           out.args.vals).res = "number"

\* C27: when the matching of a dispatch comes to an extra matcher on one
\* parameter, or the validation of the responders of the mapping taken to
\* a responder on one parameter, that names a parameter beyond the last of
\* the call or was built with a number that is not positive or not below
\* MOC_MAXPARAMS, the dispatch reports the error of the invalid parameter
\* number with the position of that element (matchers counted first, then
\* the responders of the group), runs no responder and, when the error
\* function returns, gives back the empty value; and that error is
\* reported for such elements only, so never for a matcher or a responder
\* on the whole call.
C27_InvalidParameterNumber ==
    ActOnEntry =>
        LET v == OutcomeOfLastAct
            n == Len(out.args.vals)
            nm == n + moc_ctx.maps[v.sel].nxmatchers
            w == OutcomeOfResponders(moc_ctx, v.sel, out.args.vals)
            reported(p) ==
                /\ out.handled # <<>>
                /\ moc_ctx.lasterr =
                      moc_init_error_t(MOC_ERR_INVNPARAM, out.funcname,
                                       p, 0, 0)
                /\ out.ran = <<>>
                /\ out.retval = moc_emptyval
        IN /\ v.res = "number" => reported(v.pos)
           /\ ResponderNumberFault => reported(nm + w.pos)
           /\ (out.handled # <<>>
                 /\ moc_ctx.lasterr.errnum = MOC_ERR_INVNPARAM) =>
                 \/ /\ v.res = "number"
                    /\ MatchersOf(moc_ctx, v.sel, n)[v.pos].mopts
                          # 128 + MOC_MAXPARAMS
                 \/ /\ ResponderNumberFault
                    /\ moc_ctx.resps[GroupsOf(moc_ctx, v.sel)[1][w.pos]].ropts
                          # 128 + MOC_MAXPARAMS

\* C27 witness: a function of one parameter whose mapping has as second
\* responder one built with the number MOC_MAXPARAMS has been called, the
\* error was reported at position 3 (one matcher, second responder), the
\* error function returned and the dispatch gave back the empty value
C27_Witness ==
    /\ ActOnEntry
    /\ Len(out.args.vals) = 1
    /\ ResponderNumberFault
    /\ OutcomeOfResponders(moc_ctx, OutcomeOfLastAct.sel,
                           out.args.vals).pos = 2
    /\ moc_ctx.lasterr.pos = 3
    /\ out.handled = <<"test_errfn">>
    /\ ~out.exited
    /\ out.retval = moc_emptyval

\* the only matcher of the i-th mapping of the entry f of one parameter
OnlyMatcher(ctx, f, i) == MatchersOf(ctx, MappingsOf(ctx, f)[i], 1)[1]

\* the matcher compares with the address of a function for equality or
\* for inequality, and the address passed is, or is not, the one it has
AcceptsByIdentity(mtc, param) ==
    \/ mtc.mtcfn = "moc_cmpeq" /\ param.data = mtc.mval.data
    \/ mtc.mtcfn = "moc_cmpne" /\ param.data # mtc.mval.data

\* C28: a function of one parameter whose mappings all have as matcher a
\* comparison with the address of a function is called with the address
\* of a function.  The mappings are taken in order up to the first whose
\* matcher is an ordering comparison (lt, le, gt, ge) or is eq with the
\* very address passed or ne with another address.  If it is an ordering
\* comparison the dispatch reports the error of the invalid comparison
\* operator with position 1, runs no responder and, when the error
\* function returns, gives back the empty value; if it is eq or ne, that
\* mapping is taken without error; if there is none, no mapping is found.
C28_OrderingOfFunctions ==
    (ActOnEntry /\ out.args.vals[1].type = MOC_TYPES2BYTE(MOC_FUN, MOC_NOPTR)) =>
        LET f == CHOOSE e \in EntriesOf(moc_ctx, out.funcname, 1) : TRUE
            maps == MappingsOf(moc_ctx, f)
            stops == {i \in DOMAIN maps :
                        \/ OrdersFunctions(OnlyMatcher(moc_ctx, f, i))
                        \/ AcceptsByIdentity(OnlyMatcher(moc_ctx, f, i),
                                             out.args.vals[1])}
            i1 == CHOOSE i \in stops : \A j \in stops : i <= j
        IN IF stops = {}
           THEN /\ out.handled # <<>>
                /\ moc_ctx.lasterr.errnum = MOC_ERR_MAPNOTFND
           ELSE IF OrdersFunctions(OnlyMatcher(moc_ctx, f, i1))
           THEN /\ out.handled # <<>>
                /\ moc_ctx.lasterr =
                      moc_init_error_t(MOC_ERR_INVALOPER, out.funcname,
                                       1, 0, 0)
                /\ out.sel = 0
                /\ out.ran = <<>>
                /\ out.retval = moc_emptyval
           ELSE /\ out.handled = <<>>
                /\ out.sel = maps[i1]
                /\ out.retval = moc_i(7)

\* C28 witness: the function has a mapping with ne and a mapping with an
\* ordering comparison, in this order, and has been called with the
\* address the first compares with: the first mapping was passed over, the
\* error was reported, the error function returned and the dispatch gave
\* back the empty value
C28_Witness ==
    /\ ActOnEntry
    /\ out.args.vals = <<moc_fn("fun_a")>>
    /\ Len(MappingsOf(moc_ctx, 1)) = 2
    /\ OnlyMatcher(moc_ctx, 1, 1).mtcfn = "moc_cmpne"
    /\ OrdersFunctions(OnlyMatcher(moc_ctx, 1, 2))
    /\ moc_ctx.lasterr.errnum = MOC_ERR_INVALOPER
    /\ out.handled = <<"test_errfn">>
    /\ ~out.exited
    /\ out.retval = moc_emptyval

\* C28 witness of the accepted comparisons: eq was passed over and ne taken
\* for an address other than the one both compare with
C28_WitnessAccepted ==
    /\ ActOnEntry
    /\ out.args.vals = <<moc_fn("fun_b")>>
    /\ Len(MappingsOf(moc_ctx, 1)) = 2
    /\ OnlyMatcher(moc_ctx, 1, 1).mtcfn = "moc_cmpeq"
    /\ OnlyMatcher(moc_ctx, 1, 2).mtcfn = "moc_cmpne"
    /\ out.sel = MappingsOf(moc_ctx, 1)[2]
    /\ out.retval = moc_i(7)

\* the types of the values of the ordinary matchers, of the extra matchers
\* and of the responders of a configuration, in this order
TypesOfGiven(args) ==
    [i \in 1..Len(args.mtcs) |-> args.mtcs[i].mval.type]
        \o [i \in 1..Len(args.xmtcs) |-> args.xmtcs[i].mval.type]
        \o [i \in 1..Len(args.rsps) |-> args.rsps[i].rval.type]

\* the positions, from 1, of the elements of a configuration whose type
\* byte has a kind above 12 or the indirection 3
IllegalPositions(args) ==
    {p \in DOMAIN TypesOfGiven(args) :
        \/ TypesOfGiven(args)[p] \div 4 > 12
        \/ TypesOfGiven(args)[p] % 4 = 3}

FirstIllegal(args) ==
    CHOOSE p \in IllegalPositions(args) : \A q \in IllegalPositions(args) : p <= q

\* the configuration just made reported the invalid type at the position
\* of its first element with an illegal type byte
ReportedIllegal(c, o) ==
    /\ o.handled # <<>>
    /\ c.lasterr.errnum = MOC_ERR_INVALTYPE
    /\ c.lasterr.pos = FirstIllegal(o.args)

\* C29: a configuration in which the value of an ordinary matcher, of an
\* extra matcher or of a responder has a type byte with a kind above 12 or
\* with the indirection 3 reports the invalid parameter type with the
\* position, from 1, of the first such element, ordinary matchers counted
\* first, then extra matchers, then responders, and leaves the five counts
\* and every element in use as they were.
C29_InvalidTypeReported ==
    [][(out'.op = "moc_given_extra" /\ IllegalPositions(out'.args) # {}) =>
          /\ ReportedIllegal(moc_ctx', out')
          /\ InUse(moc_ctx') = InUse(moc_ctx)]_<<out.op>>

\* C29, with the capacities: such a configuration reports the limit error
\* of a kind of which the context lacks elements, if there is one, and
\* else the invalid parameter type with the position of the first such
\* element; in both cases the counts and the elements in use are as they
\* were.
C29_InvalidTypeOrLimit ==
    [][(out'.op = "moc_given_extra" /\ IllegalPositions(out'.args) # {}) =>
          LET lack == LackingKinds(moc_ctx, out'.funcname, out'.args.mtcs,
                                   out'.args.xmtcs, out'.args.rsps)
          IN /\ InUse(moc_ctx') = InUse(moc_ctx)
             /\ out'.handled = <<moc_ctx.errfn>>
             /\ IF lack # {}
                THEN moc_ctx'.lasterr.errnum \in lack
                ELSE ReportedIllegal(moc_ctx', out')]_<<out.op>>

\* C29: a configuration whose second responder has a kind above 12 has
\* been turned down with position 3 while there was room for it
C29_WitnessRoom ==
    /\ out.op = "moc_given_extra"
    /\ IllegalPositions(out.args) = {3}
    /\ ReportedIllegal(moc_ctx, out)
    /\ moc_ctx.nlnods + 2 <= moc_ctx.maxlnods
    /\ moc_ctx.nmaps >= 1

\* a mutable address of a numeric kind
CountableAddress(val) ==
    /\ MOC_PTRTYPE(val.type) = MOC_PTR
    /\ MOC_STDTYPE(val.type) \in
          {MOC_CHR, MOC_SHR, MOC_INT, MOC_LNG, MOC_FLT, MOC_DBL, MOC_SCHR,
           MOC_UCHR, MOC_USHR, MOC_UINT, MOC_ULNG}

\* the mappings in use that have one group of responders, made of a
\* counter on a mutable address of a numeric kind and of a value to return
CountingMappings(ctx) ==
    {i \in 1..ctx.nmaps :
        LET g == GroupsOf(ctx, i)
        IN /\ Len(g) = 1
           /\ Len(g[1]) = 2
           /\ ctx.resps[g[1][1]].rspfn = "moc_rspinc"
           /\ ctx.resps[g[1][1]].ropts = 128 + MOC_MAXPARAMS
           /\ CountableAddress(ctx.resps[g[1][1]].rval)
           /\ ctx.resps[g[1][2]].rspfn = "moc_rsprt"
           /\ ctx.resps[g[1][2]].ropts = 128 + MOC_MAXPARAMS}

\* the address counted by such a mapping, and the value it returns
TargetOf(ctx, i) == ctx.resps[GroupsOf(ctx, i)[1][1]].rval.data

ReturnedBy(ctx, i) == ctx.resps[GroupsOf(ctx, i)[1][2]].rval

\* C30: for every mapping with the one group [count(p), return(v)], p a
\* mutable address of a numeric kind: a dispatch that takes the mapping
\* adds exactly 1 to the variable at p and returns v, and a dispatch that
\* takes another mapping, of this or of another function, or none, leaves
\* the variable as it was - so that after k dispatches that took the
\* mapping the variable has grown by exactly k.  No other step of the test
\* changes the variable.
C30_CounterCountsDispatches ==
    [][/\ \A i \in CountingMappings(moc_ctx) :
            IF out'.op = "moc_act" /\ out'.sel = i
            THEN /\ heap'[TargetOf(moc_ctx, i)]
                       = heap[TargetOf(moc_ctx, i)] + 1
                 /\ out'.retval = ReturnedBy(moc_ctx, i)
                 /\ out'.handled = <<>>
            ELSE heap'[TargetOf(moc_ctx, i)] = heap[TargetOf(moc_ctx, i)]
       /\ (out'.op = "moc_act" /\ out'.sel \in CountingMappings(moc_ctx)) =>
             CountingMappings(moc_ctx') = CountingMappings(moc_ctx)
      ]_<<out.op>>

\* C30 witness: the third dispatch that took the mapping with the counter
\* has returned 7 and the counter, 0 at the start of the test, is 3, while
\* the function has another mapping and the context the other function
C30_Witness ==
    /\ out.op = "moc_act"
    /\ out.sel \in CountingMappings(moc_ctx)
    /\ out.retval = moc_i(7)
    /\ heap[CounterAddr] = 3
    /\ moc_ctx.nmaps > 1
    /\ moc_ctx.nfuncs > 1

\* C31: a dispatch finds its entry and takes a mapping by its matchers.
\* If the validation of the responders of the group first in the list of
\* the mapping, made in order, comes to a responder at fault (it names no
\* parameter of the call, or was built with type check and its type is
\* not that of its parameter), then no responder of the group has been
\* called, not even those before the one at fault, the variables of the
\* test are as they were, the lists of groups and every element in use
\* are as they were, the error function was called once and, when it
\* returns, the dispatch gives back the empty value.
C31_RespondersCheckedBeforeRun ==
    [][(/\ out'.op = "moc_act"
        /\ EntriesOf(moc_ctx, out'.funcname, Len(out'.args.vals)) # {}) =>
          LET f == CHOOSE e \in EntriesOf(moc_ctx, out'.funcname,
                                          Len(out'.args.vals)) : TRUE
              v == OutcomeOfEntry(moc_ctx, MappingsOf(moc_ctx, f), 1,
                                  out'.args.vals)
          IN (/\ v.res = "found"
              /\ OutcomeOfResponders(moc_ctx, v.sel, out'.args.vals).res
                    # "true") =>
                /\ out'.ran = <<>>
                /\ heap' = heap
                /\ InUse(moc_ctx') = InUse(moc_ctx)
                /\ GroupsOf(moc_ctx', v.sel) = GroupsOf(moc_ctx, v.sel)
                /\ out'.handled = <<moc_ctx.errfn>>
                /\ moc_ctx'.lasterr.errnum
                      \in {MOC_ERR_INVNPARAM, MOC_ERR_PARAMTYPE}
                /\ out'.retval = moc_emptyval]_<<out.op>>

\* C31 witness: the mapping taken has two groups, the first with the
\* counter before a responder that names the second parameter of a call
\* of one; the error function returned, the counter is 0, nothing was
\* called and the dispatch gave back the empty value
C31_Witness ==
    /\ ActOnEntry
    /\ OutcomeOfLastAct.res = "found"
    /\ Len(GroupsOf(moc_ctx, OutcomeOfLastAct.sel)) = 2
    /\ OutcomeOfResponders(moc_ctx, OutcomeOfLastAct.sel,
                           out.args.vals) = [res |-> "number", pos |-> 2]
    /\ moc_ctx.resps[GroupsOf(moc_ctx, OutcomeOfLastAct.sel)[1][1]].rspfn
          = "moc_rspinc"
    /\ out.handled = <<"test_errfn">>
    /\ ~out.exited
    /\ heap = HeapZero
    /\ out.ran = <<>>
    /\ out.retval = moc_emptyval

\* the error number of each fault of a matcher
ErrnumOfFault(res) ==
    CASE res = "placement" -> MOC_ERR_INVALMTCH
      [] res = "number" -> MOC_ERR_INVNPARAM
      [] res = "operator" -> MOC_ERR_INVALOPER
      [] res = "type" -> MOC_ERR_PARAMTYPE
      [] OTHER -> 0

\* the mappings of the entry of the dispatch just made, behind the one at
\* which the matching stopped, all of whose matchers accept the call
PassingBehind ==
    LET f == CHOOSE e \in EntriesOf(moc_ctx, out.funcname,
                                    Len(out.args.vals)) : TRUE
        maps == MappingsOf(moc_ctx, f)
    IN {i \in DOMAIN maps :
          /\ \E j \in 1..(i - 1) : maps[j] = OutcomeOfLastAct.sel
          /\ OutcomeOfMapping(MatchersOf(moc_ctx, maps[i],
                                         Len(out.args.vals)), 1,
                              out.args.vals).res = "true"}

\* C32: the matching of a dispatch goes through the mappings of the entry
\* in order and through the matchers of each by position; a matcher that
\* refuses ends the matching of its mapping, the matchers behind it being
\* neither validated nor called, and the next mapping is tried.  When the
\* matching comes to a matcher not valid for the call (out of its place,
\* naming no parameter, ordering addresses of functions, or of another
\* type than its parameter) the dispatch ends with the error of that
\* fault at the position of the matcher: no mapping is taken, whatever
\* the mappings behind, no responder is called and, when the error
\* function returns, the empty value comes back.  When the matching comes
\* to no such matcher the first mapping all of whose matchers accept is
\* taken, and the error of no mapping is reported when there is none.
C32_InvalidMatcherEndsDispatch ==
    ActOnEntry =>
        LET v == OutcomeOfLastAct
        IN IF v.res = "found"
           THEN out.sel = v.sel /\ out.handled = <<>>
           ELSE /\ out.handled # <<>>
                /\ out.sel = 0
                /\ out.ran = <<>>
                /\ out.retval = moc_emptyval
                /\ IF v.res = "none"
                   THEN moc_ctx.lasterr.errnum = MOC_ERR_MAPNOTFND
                   ELSE /\ moc_ctx.lasterr.errnum = ErrnumOfFault(v.res)
                        /\ moc_ctx.lasterr.pos = v.pos

\* C32 witness: the matching stopped at a second matcher not valid for the
\* call, in a mapping that has behind it a mapping all of whose matchers
\* accept the call; the error function returned and the dispatch gave
\* back the empty value
C32_Witness ==
    /\ ActOnEntry
    /\ OutcomeOfLastAct.res \in {"placement", "operator", "type"}
    /\ OutcomeOfLastAct.pos = 2
    /\ PassingBehind # {}
    /\ out.handled = <<"test_errfn">>
    /\ ~out.exited
    /\ out.sel = 0
    /\ out.retval = moc_emptyval

\* C32 witness of the matchers behind one that refuses: the mapping taken
\* is behind a mapping whose first matcher refuses the call and whose
\* second matcher is not valid for it
C32_WitnessSkipped ==
    /\ ActOnEntry
    /\ out.args.vals = <<moc_i(2), moc_i(1)>>
    /\ out.sel # 0
    /\ out.handled = <<>>
    /\ LET maps == MappingsOf(moc_ctx, 1)
       IN /\ Len(maps) >= 2
          /\ out.sel = maps[2]
          /\ StepOf(MatchersOf(moc_ctx, maps[1], 2)[2], 2, out.args.vals)
                \in {"placement", "operator", "type"}

\* whether moc_given_nnn finds a Mapping of the entry to add the group to,
\* for a call moc_given_extra(funcname, moc_match_n(mtcs), moc_xmatch_n(xmtcs), ..)
AppendsToMapping(ctx, funcname, mtcs, xmtcs) ==
    LET c == moc_match_n(ctx, mtcs)
        f == FindFunction(c, 1, funcname, Len(mtcs))
    IN /\ f <= c.nfuncs
       /\ SearchMapping(c, c.funcs[f].lmaps.first, c.auxmatcs, Len(mtcs),
                        Len(xmtcs)) # MOC_NULLNODE

\* the context of a run that made the same calls since the last moc_init,
\* and whose last moc_given before it passed the matchers earlier
AfterEarlier(ctx, earlier) ==
    [ctx EXCEPT !.auxmatcs =
        [i \in 1..MOC_AUXMAX |->
            IF i = 1 \/ i > Len(earlier) THEN @[i] ELSE earlier[i]]]

\* no function entry in use was configured by moc_given with a list of
\* StaleOrdinaryLists: the last such call came before the last moc_init
OnlyShortEntries(ctx) ==
    \A f \in 1..ctx.nfuncs : ctx.funcs[f].nparams = 1

\* C33: whether a moc_given_extra call adds its group to an existing
\* Mapping or creates a Mapping depends on the registry and on the ordinary
\* and extra matchers of the call only: the call decides as it would in a
\* run with the same registry whose earlier moc_given call, before the
\* last moc_init, passed other matchers
C33_DecisionIgnoresEarlierCalls ==
    [][(/\ out'.op = "moc_given_extra"
        /\ out'.handled = <<>>
        /\ OnlyShortEntries(moc_ctx))
       => \A earlier \in StaleOrdinaryLists :
            /\ Registry(AfterEarlier(moc_ctx, earlier)) = Registry(moc_ctx)
            /\ (moc_ctx'.nmaps = moc_ctx.nmaps)
                 = AppendsToMapping(AfterEarlier(moc_ctx, earlier),
                                    out'.funcname, out'.args.mtcs,
                                    out'.args.xmtcs)]_<<out.op>>

RECURSIVE Walk(_, _, _)
\* the nodes met from node on by following next at most k times, ended by
\* the value at which the walk stops: MOC_NULLNODE at the end of a list, a
\* node that is not in use, or the node reached after k steps
Walk(ctx, node, k) ==
    IF k = 0 \/ node \notin 1..ctx.nlnods
    THEN <<node>>
    ELSE <<node>> \o Walk(ctx, ctx.lnods[node].next, k - 1)

\* the list is a chain of distinct nodes in use that ends with
\* MOC_NULLNODE, and last is its final node (MOC_NULLNODE when empty)
IsChain(ctx, lst) ==
    LET w == Walk(ctx, lst.first, ctx.nlnods)
    IN /\ w[Len(w)] = MOC_NULLNODE
       /\ \A i, j \in 1..(Len(w) - 1) : i # j => w[i] # w[j]
       /\ lst.last = IF Len(w) = 1 THEN MOC_NULLNODE ELSE w[Len(w) - 1]

\* the lists of mappings of the entries and the lists of responder groups
\* of the mappings in use are chains
ListsAreChains(ctx) ==
    /\ \A f \in 1..ctx.nfuncs : IsChain(ctx, ctx.funcs[f].lmaps)
    /\ \A i \in 1..ctx.nmaps : IsChain(ctx, ctx.maps[i].lresps)

\* the sequence with its first element moved to the end
Rotated(s) == IF s = <<>> THEN s ELSE Tail(s) \o <<Head(s)>>

\* C34: after every call the list of mappings of every entry and the list
\* of responder groups of every mapping is a chain without cycle whose
\* last is its final node; a dispatch leaves the list of groups of every
\* mapping as it was or with its first group moved to the end, the groups
\* and their responders being the same
C34_ListsStayChains ==
    [][/\ ListsAreChains(moc_ctx')
       /\ out'.op = "moc_act"
            => /\ moc_ctx'.nmaps = moc_ctx.nmaps
               /\ \A i \in 1..moc_ctx.nmaps :
                    /\ GroupsOf(moc_ctx', i)
                         \in {GroupsOf(moc_ctx, i),
                              Rotated(GroupsOf(moc_ctx, i))}
                    /\ GroupContentsOf(moc_ctx', i)
                         \in {GroupContentsOf(moc_ctx, i),
                              Rotated(GroupContentsOf(moc_ctx, i))}
                    /\ GroupsOf(moc_ctx', i) # GroupsOf(moc_ctx, i)
                         => i = out'.sel]_<<out.op>>

\* a dispatch has moved the first of three groups of a mapping to the end
C34_Witness ==
    /\ out.op = "moc_act"
    /\ out.sel # 0
    /\ ListsAreChains(moc_ctx)
    /\ LET g == GroupNodesOf(moc_ctx, out.sel)
       IN /\ Len(g) = 3
          /\ g[3] = out.grp
          /\ g[3] < g[1]
          /\ g[1] < g[2]
          /\ moc_ctx.maps[out.sel].lresps.last = g[3]

\* the list has a first node, which is a list node in use
HasHead(ctx, lst) == lst.first # MOC_NULLNODE /\ lst.first \in 1..ctx.nlnods

\* C35: every function entry counted by nfuncs has a first mapping, a
\* mapping in use, and every mapping counted by nmaps has a first group of
\* responders, whose responders are in use; the group a dispatch takes
\* from the mapping it selected is a list node in use
C35_NoEmptyLists ==
    /\ \A f \in 1..moc_ctx.nfuncs :
         /\ HasHead(moc_ctx, moc_ctx.funcs[f].lmaps)
         /\ moc_ctx.lnods[moc_ctx.funcs[f].lmaps.first].item
               \in 1..moc_ctx.nmaps
    /\ \A i \in 1..moc_ctx.nmaps :
         /\ HasHead(moc_ctx, moc_ctx.maps[i].lresps)
         /\ LET rnode == moc_ctx.lnods[moc_ctx.maps[i].lresps.first]
            IN rnode.nitems > 0
                 => /\ rnode.item \in 1..moc_ctx.nresps
                    /\ rnode.item + rnode.nitems - 1 \in 1..moc_ctx.nresps
    /\ (out.op = "moc_act" /\ out.sel # 0)
         => /\ out.sel \in 1..moc_ctx.nmaps
            /\ out.grp \in 1..moc_ctx.nlnods
            /\ out.grp \in Range(GroupNodesOf(moc_ctx, out.sel))

\* a dispatch took the first of two groups of the only mapping, after a
\* configuration was turned down for lack of elements
C35_Witness ==
    /\ out.op = "moc_act"
    /\ out.sel # 0
    /\ out.ran # <<>>
    /\ moc_ctx.nfuncs = 1
    /\ Len(GroupNodesOf(moc_ctx, out.sel)) = 2
    /\ moc_ctx.lasterr.errnum \in LimitErrors

\* the bytes of the region that begins at offset from and holds n elements
\* of size bytes each, as the pair of its first byte and the byte behind it
RegionBytes(from, n, size) == <<from, from + n * size>>

\* the five regions of the context, in the order functions, mappings,
\* matchers, responders, list nodes
FiveRegions(ctx) ==
    LET p == moc_init_regions(ctx)
    IN <<RegionBytes(p.funcs, ctx.maxfuncs, SizeofFunction),
         RegionBytes(p.maps, ctx.maxmaps, SizeofMapping),
         RegionBytes(p.matcs, ctx.maxmatcs, SizeofMatcher),
         RegionBytes(p.resps, ctx.maxresps, SizeofResponder),
         RegionBytes(p.lnods, ctx.maxlnods, SizeofListnode)>>

\* C36: after moc_init(mem, size) the five regions lie within the size
\* bytes of the buffer, each begins where the one before it ends, in the
\* order functions, mappings, matchers, responders, list nodes, no two of
\* them share a byte, and the capacities times the sizes of the elements
\* add up to at most size
C36_RegionsInsideBuffer ==
    out.op = "moc_init" =>
        LET r == FiveRegions(moc_ctx)
        IN /\ r[1][1] = 0
           /\ \A k \in 1..5 : r[k][1] <= r[k][2] /\ r[k][2] <= out.args
           /\ \A k \in 1..4 : r[k][2] = r[k + 1][1]
           /\ \A j, k \in 1..5 :
                j < k => \A b \in {r[j][1], r[j][2] - 1} :
                             r[j][1] < r[j][2] => ~(r[k][1] <= b /\ b < r[k][2])
           /\ moc_ctx.maxfuncs * SizeofFunction
                + moc_ctx.maxmaps * SizeofMapping
                + moc_ctx.maxmatcs * SizeofMatcher
                + moc_ctx.maxresps * SizeofResponder
                + moc_ctx.maxlnods * SizeofListnode <= out.args

\* moc_init was called with a size at which every kind has elements and
\* the five regions leave bytes of the buffer unused
C36_Witness ==
    /\ out.op = "moc_init"
    /\ \A k \in 1..5 : Capacities(moc_ctx)[k] > 0
    /\ moc_init_regions(moc_ctx).rest < out.args
    /\ moc_init_regions(moc_ctx).rest > 0

\* the call of the step configured what it was asked to: a list node was
\* added for the group of responders
GivenSucceeds == moc_ctx'.nlnods > moc_ctx.nlnods

\* the call of the step came back with a value of the declared type after
\* every responder of the group it took had run
ActSucceeds ==
    /\ ~out'.exited
    /\ out'.sel # 0
    /\ Len(out'.ran) = moc_ctx.lnods[out'.grp].nitems
    /\ out'.retval.type = out'.args.rettype

\* C37: a call of moc_given, moc_given_extra or moc_act calls the error
\* function at most once, the one installed when the call began, and calls
\* it exactly when the call does not succeed: a configuration that adds
\* its group and a dispatch that returns a value of the declared type
\* after running the responders call no error function
C37_HandlerAtMostOnce ==
    [][out'.op \in {"moc_given", "moc_given_extra", "moc_act"}
       => /\ Len(out'.handled) <= 1
          /\ out'.handled # <<>> => out'.handled = <<moc_ctx.errfn>>
          /\ out'.op \in {"moc_given", "moc_given_extra"}
               => (GivenSucceeds <=> out'.handled = <<>>)
          /\ out'.op = "moc_act"
               => (ActSucceeds <=> out'.handled = <<>>)]_<<out.op>>

\* a dispatch ran the two responders of its group, called the error
\* function once for the type of the value and came back
C37_Witness ==
    /\ out.op = "moc_act"
    /\ Len(out.handled) = 1
    /\ ~out.exited
    /\ Len(out.ran) = 2
    /\ out.retval.type # out.args.rettype

\* C38: after moc_init the error function is moc_error, whatever was
\* installed before; after moc_set_errfn it is the function passed; no
\* other step changes it, and a call that reports an error calls the
\* function that was installed when the call began
C38_InitInstallsDefault ==
    [][/\ out'.op = "moc_init" => moc_ctx'.errfn = "moc_error"
       /\ out'.op = "moc_set_errfn" => moc_ctx'.errfn = out'.args
       /\ out'.op \notin {"moc_init", "moc_set_errfn"}
            => /\ moc_ctx'.errfn = moc_ctx.errfn
               /\ \A i \in DOMAIN out'.handled :
                      out'.handled[i] = moc_ctx.errfn]_<<out.op>>

\* moc_init was called after an error function that returns had been
\* installed and called: the function in effect is moc_error
C38_Witness ==
    /\ out.op = "moc_init"
    /\ moc_ctx.lasterr.errnum # 0
    /\ moc_ctx.errfn = "moc_error"

\* an error function installed after moc_init was called by a dispatch
\* that followed a configuration
C38_WitnessInEffect ==
    /\ out.op = "moc_act"
    /\ out.handled = <<"other_errfn">>
    /\ moc_ctx.errfn = "other_errfn"
    /\ moc_ctx.nfuncs > 0

\* the place the loops of a completed call stopped at is the one the call
\* acted on: the entry at f is the one with the name and the number of
\* parameters, or f is nfuncs and no entry was found; a dispatch took the
\* responders of the mapping of mnode, and reported that no mapping
\* matched only when mnode had reached the end of the list
WalkAgrees ==
    Completed =>
        /\ out.f <= moc_ctx.nfuncs
        /\ out.op = "moc_act" =>
             /\ out.sel # 0 => moc_ctx.lnods[out.mnode].item = out.sel
             /\ (out.handled # <<>>
                   /\ moc_ctx.lasterr.errnum = MOC_ERR_MAPNOTFND)
                  => out.mnode = MOC_NULLNODE
             /\ (out.handled # <<>>
                   /\ moc_ctx.lasterr.errnum = MOC_ERR_FUNNOTFND)
                  => out.f = moc_ctx.nfuncs
        /\ (out.op = "moc_given_extra" /\ out.handled = <<>>)
             => out.f < moc_ctx.nfuncs

\* C39: every call of moc_given_extra and of moc_act that has begun comes
\* to its end, whatever the registry: the loop over the function entries
\* and the loop over the list of mappings stop, and the call acts on the
\* entry and the mapping at which they stopped
C39_CallsRunToCompletion == (InCall ~> Completed) /\ []WalkAgrees

\* a dispatch has come to its end after the loop over the mappings went
\* past the first mapping of the entry
C39_Witness ==
    /\ Completed
    /\ out.op = "moc_act"
    /\ out.sel # 0
    /\ out.mnode # moc_ctx.funcs[out.f + 1].lmaps.first

\* a configuration has come to its end after the loop over the function
\* entries went past the first entry and the loop over the mappings
\* reached the end of the list
C39_WitnessGiven ==
    /\ Completed
    /\ out.op = "moc_given_extra"
    /\ out.handled = <<>>
    /\ out.f > 0
    /\ out.mnode = MOC_NULLNODE

=============================================================================
